---- MODULE Spec2Model ----
(***************************************************************************)
(* ts-rest: request matching, validation and dispatch of the server        *)
(* adapters (Next, Express, Nest) and the helpers they are built on.       *)
(*                                                                         *)
(* Strings that the code takes apart (path templates, URLs) are sequences  *)
(* of one-character strings; every other string is a TLA+ string.          *)
(* JavaScript values are tagged records: Str, Num, Arr, Obj, Undefined.    *)
(***************************************************************************)
EXTENDS Integers, Sequences, FiniteSets, TLC

VARIABLES
    mRoute,     \* SpecMatch: the route handed to isRouteCorrect
    mUrl,       \* SpecMatch: the request URL the segment list was cut from
    mMethod,    \* SpecMatch: the request method
    mOut        \* SpecMatch: what the calls returned, or NotRun

matchVars == <<mRoute, mUrl, mMethod, mOut>>

VARIABLES
    adapter,    \* Spec: the adapter of this deployment: "next", "express" or "nest"
    opts,       \* Spec: the options the adapter was created with
    curReq,     \* Spec: the request being handled
    conn        \* Spec: what the request has led to so far (see Fresh)

serverVars == <<adapter, opts, curReq, conn>>

VARIABLES
    fnIn,       \* SpecCheck, SpecBuild: the arguments of the function under check
    fnOut       \* SpecCheck, SpecBuild: what the call returned, or NotRun

fnVars == <<fnIn, fnOut>>

vars == <<mRoute, mUrl, mMethod, mOut, adapter, opts, curReq, conn, fnIn, fnOut>>

\* ------------------------------------------------------------------ bounds

\* Longest path template / URL, in characters, that SpecMatch enumerates.
MaxPathLen == 5

\* ------------------------------------------------------------------ values

Undefined == [t |-> "undefined"]
Null == [t |-> "null"]
Str(s) == [t |-> "str", v |-> s]
Num(s) == [t |-> "num", v |-> s]
Arr(q) == [t |-> "arr", v |-> q]
Obj(f) == [t |-> "obj", f |-> f]

EmptyFn == [k \in {} |-> Undefined]
EmptyObj == Obj(EmptyFn)

IsObj(v) == v.t = "obj"
Keys(o) == DOMAIN o.f

\* f[k], undefined for a missing key
Lookup(f, k) == IF k \in DOMAIN f THEN f[k] ELSE Undefined

\* { ...a, ...b } on two key-value records: b's value wins where both have the key
Spread(a, b) == [k \in (DOMAIN a) \cup (DOMAIN b) |-> IF k \in DOMAIN b THEN b[k] ELSE a[k]]

\* ------------------------------------------------------------------ strings

RECURSIVE StrOf(_)
\* the string spelled by a sequence of characters
StrOf(cs) == IF cs = <<>> THEN "" ELSE cs[1] \o StrOf(Tail(cs))

RECURSIVE SplitFrom(_, _, _)
SplitFrom(s, i, cur) ==
    IF i > Len(s) THEN <<cur>>
    ELSE IF s[i] = "/" THEN <<cur>> \o SplitFrom(s, i + 1, <<>>)
    ELSE SplitFrom(s, i + 1, Append(cur, s[i]))

\* String.prototype.split('/')
Split(s) == SplitFrom(s, 1, <<>>)

\* Array.prototype.slice(1)
Slice1(q) == IF q = <<>> THEN <<>> ELSE Tail(q)

\* String.prototype.startsWith(':')
StartsWithColon(seg) == Len(seg) > 0 /\ seg[1] = ":"

\* ------------------------------------------------------------------ routing

RECURSIVE RouteLoop(_, _, _, _)
\* the for loop of isRouteCorrect: `matches` is cleared by every literal
\* segment that differs and the loop runs to the end
RouteLoop(pathAsArray, query, i, matches) ==
    IF i > Len(pathAsArray) THEN matches
    ELSE LET isCurrElementWildcard == StartsWithColon(pathAsArray[i])
         IN  RouteLoop(pathAsArray, query, i + 1,
                 IF ~isCurrElementWildcard /\ StrOf(pathAsArray[i]) # query[i]
                 THEN FALSE ELSE matches)

\* isRouteCorrect without the comparison of the methods
isRouteCorrectAnyMethod(route, query, method) ==
    LET pathAsArray == Slice1(Split(route.path))
    IN  IF Len(pathAsArray) = Len(query)
        THEN RouteLoop(pathAsArray, query, 1, TRUE)
        ELSE FALSE

isRouteCorrect(route, query, method) ==
    LET pathAsArray == Slice1(Split(route.path))
    IN  IF Len(pathAsArray) = Len(query) /\ route.method = method
        THEN RouteLoop(pathAsArray, query, 1, TRUE)
        ELSE FALSE

RECURSIVE ParamsLoop(_, _, _, _)
ParamsLoop(pathAsArray, segs, i, acc) ==
    IF i > Len(pathAsArray) THEN acc
    ELSE ParamsLoop(pathAsArray, segs, i + 1,
             IF StartsWithColon(pathAsArray[i])
             THEN Spread(acc, (StrOf(Tail(pathAsArray[i])) :>
                                 (IF i <= Len(segs) THEN Str(segs[i]) ELSE Undefined)))
             ELSE acc)

\* path-utils: bind every ':name' template segment to the request segment at
\* the same index
getPathParamsFromArray(segs, route) ==
    ParamsLoop(Slice1(Split(route.path)), segs, 1, EmptyFn)

\* ------------------------------------------------------------------ zod

\* A zod object schema is a record carrying safeParse: its shape maps field
\* names to validators, unknownKeys is "strip" (the default) or "strict".
\*   "string"      z.string()
\*   "optString"   z.string().optional()
\*   "digits"      z.string().regex(/^\d+$/)
\*   "strToNum"    z.string().transform(Number)
\*   "number"      z.number()
\*   "strDefault"  z.string().default('hello world')
ZodObject(shape, unknownKeys) ==
    [safeParse |-> TRUE, shape |-> shape, unknownKeys |-> unknownKeys]

Numerals == {"1", "3", "123"}

\* Number(s) of a string
NumberOf(s) == IF s \in Numerals THEN Num(s) ELSE Num("NaN")

Issue(path, code) == [path |-> path, code |-> code]

\* the issue of a strict object: it names the keys the shape does not declare
UnrecognizedKeys(keys) == [path |-> <<>>, code |-> "unrecognized_keys", keys |-> keys]

FieldOk(out) == [ok |-> TRUE, has |-> TRUE, out |-> out]
FieldAbsent == [ok |-> TRUE, has |-> FALSE, out |-> Undefined]
FieldBad(code) == [ok |-> FALSE, has |-> FALSE, code |-> code]

\* one field of a z.object, v being Undefined for a missing key
ZodField(validator, v) ==
    CASE validator = "string" ->
            IF v.t = "str" THEN FieldOk(v) ELSE FieldBad("invalid_type")
      [] validator = "optString" ->
            IF v.t = "undefined" THEN FieldAbsent
            ELSE IF v.t = "str" THEN FieldOk(v) ELSE FieldBad("invalid_type")
      [] validator = "digits" ->
            IF v.t # "str" THEN FieldBad("invalid_type")
            ELSE IF v.v \in Numerals THEN FieldOk(v) ELSE FieldBad("invalid_string")
      [] validator = "strToNum" ->
            IF v.t = "str" THEN FieldOk(NumberOf(v.v)) ELSE FieldBad("invalid_type")
      [] validator = "number" ->
            IF v.t = "num" THEN FieldOk(v) ELSE FieldBad("invalid_type")
      [] validator = "strDefault" ->
            IF v.t = "undefined" THEN FieldOk(Str("hello world"))
            ELSE IF v.t = "str" THEN FieldOk(v) ELSE FieldBad("invalid_type")

ZodError(issues) == [name |-> "ZodError", issues |-> issues]

\* the issues of a parse: one per failing field, one for the unknown keys of
\* a strict schema
ZodIssues(schema, fields, unknown) ==
    {Issue(<<k>>, fields[k].code) : k \in {x \in DOMAIN fields : ~fields[x].ok}}
    \cup (IF schema.unknownKeys = "strict" /\ unknown # {}
          THEN {UnrecognizedKeys(unknown)} ELSE {})

\* the parsed value: the fields that have one, and the unknown keys of a
\* passthrough schema
ZodOutput(schema, data, fields, unknown) ==
    Obj([k \in {x \in DOMAIN fields : fields[x].has}
               \cup (IF schema.unknownKeys = "passthrough" THEN unknown ELSE {})
            |-> IF k \in DOMAIN fields THEN fields[k].out ELSE data.f[k]])

ZodResult(issues, out) ==
    IF issues = {} THEN [success |-> TRUE, data |-> out]
    ELSE [success |-> FALSE, error |-> ZodError(issues)]

ZodParseObject(schema, data, fields, unknown) ==
    ZodResult(ZodIssues(schema, fields, unknown), ZodOutput(schema, data, fields, unknown))

\* z.array(element): like every zod schema it carries safeParse
ZodArray(element) == [safeParse |-> TRUE, element |-> element]

\* the keys of an array's elements, as object keys
IndexKeys == <<"0", "1", "2">>

\* schema.safeParse(data) of a z.array, the elements already parsed
ZodParseArray(items) ==
    ZodResult({Issue(<<IndexKeys[i]>>, items[i].code) : i \in {j \in DOMAIN items : ~items[j].ok}},
              Arr([i \in DOMAIN items |-> items[i].out]))

\* schema.safeParse(data) of a z.object or a z.array
ZodSafeParse(schema, data) ==
    IF "element" \in DOMAIN schema
    THEN IF data.t # "arr"
         THEN [success |-> FALSE, error |-> ZodError({Issue(<<>>, "invalid_type")})]
         ELSE ZodParseArray([i \in DOMAIN data.v |-> ZodField(schema.element, data.v[i])])
    ELSE IF ~IsObj(data)
    THEN [success |-> FALSE, error |-> ZodError({Issue(<<>>, "invalid_type")})]
    ELSE ZodParseObject(schema, data,
             [k \in DOMAIN schema.shape |-> ZodField(schema.shape[k], Lookup(data.f, k))],
             (DOMAIN data.f) \ (DOMAIN schema.shape))

\* ------------------------------------------------------------------ zod-utils

isZodObject(body) == "safeParse" \in DOMAIN body

\* typeof data === 'object'
TypeofObject(data) == data.t \in {"obj", "arr", "null"}

\* the own enumerable properties an object spread copies: the keys of an
\* object, the indices of an array, nothing of null
SpreadOf(data) ==
    IF IsObj(data) THEN data.f
    ELSE IF data.t = "arr"
    THEN [k \in {IndexKeys[i] : i \in DOMAIN data.v} |->
             data.v[CHOOSE i \in DOMAIN data.v : IndexKeys[i] = k]]
    ELSE EmptyFn

\* checkZodSchema after schema.safeParse(data)
CheckParsed(data, result, passThroughExtraKeys) ==
    IF result.success
    THEN [success |-> TRUE,
          data |-> IF passThroughExtraKeys /\ TypeofObject(data)
                   THEN Obj(Spread(SpreadOf(data), SpreadOf(result.data)))
                   ELSE result.data]
    ELSE [success |-> FALSE, error |-> result.error]

\* checkZodSchema that applies the spread of passThroughExtraKeys without a schema too
checkZodSchemaSpreads(data, schema, passThroughExtraKeys) ==
    IF isZodObject(schema)
    THEN CheckParsed(data, ZodSafeParse(schema, data), passThroughExtraKeys)
    ELSE [success |-> TRUE,
          data |-> IF passThroughExtraKeys /\ TypeofObject(data)
                   THEN Obj(SpreadOf(data)) ELSE data]

checkZodSchema(data, schema, passThroughExtraKeys) ==
    IF isZodObject(schema)
    THEN CheckParsed(data, ZodSafeParse(schema, data), passThroughExtraKeys)
    ELSE [success |-> TRUE, data |-> data]

\* {value} or {error} from {success, data} or {success, error}
StandardResult(r) ==
    IF r.success THEN [value |-> r.data, error |-> Undefined]
    ELSE [value |-> Undefined, error |-> r.error]

\* checkStandardSchema: the same check, answering {value} or {error}
checkStandardSchema(data, schema, passThroughExtraKeys) ==
    StandardResult(checkZodSchema(data, schema, passThroughExtraKeys))

\* objectA.merge(objectB) of two z.objects: B's validator for a field both
\* declare, B's policy for unknown keys
ZodMergeObjects(objectA, objectB) ==
    ZodObject(Spread(objectA.shape, objectB.shape), objectB.unknownKeys)

\* zodMerge(objectA, objectB): absent with both absent, the one present with
\* one absent, the merge with both present
zodMerge(objectA, objectB) ==
    IF isZodObject(objectA)
    THEN IF isZodObject(objectB) THEN ZodMergeObjects(objectA, objectB) ELSE objectA
    ELSE IF isZodObject(objectB) THEN objectB
    ELSE IF IsObj(objectA) \/ IsObj(objectB)
    THEN Obj(Spread(SpreadOf(objectA), SpreadOf(objectB)))
    ELSE Undefined

\* ------------------------------------------------------------------ contract

Entry(key, value) == [key |-> key, value |-> value]
Router(entries) == [entries |-> entries]

\* part_001: 'method' in obj && 'path' in obj
isAppRoute(obj) == "method" \in DOMAIN obj /\ "path" \in DOMAIN obj

\* c.noBody() and c.otherResponse({contentType, body})
NoBody == [kind |-> "noBody"]
OtherResponse(contentType, body) == [kind |-> "otherResponse", contentType |-> contentType, body |-> body]

isAppRouteNoBody(responseType) == "kind" \in DOMAIN responseType /\ responseType.kind = "noBody"
isAppRouteOtherResponse(responseType) ==
    "kind" \in DOMAIN responseType /\ responseType.kind = "otherResponse"

ItemResponse == ZodObject([id |-> "number", d |-> "strDefault"], "strip")

\* The contract the adapters serve.  getItem is a GET route that carries a
\* body schema; posts.any overlaps posts.create; posts.create sets
\* strictStatusCodes.
Contract ==
    Router(<<
        Entry("get",
            [method |-> "GET", path |-> <<"/", "t">>,
             pathParams |-> Undefined, headers |-> Undefined,
             query |-> Undefined, body |-> Undefined,
             responses |-> (200 :> Undefined)]),
        Entry("getItem",
            [method |-> "GET", path |-> <<"/", "t", "/", ":", "i", "d">>,
             pathParams |-> ZodObject([id |-> "digits"], "strip"),
             headers |-> Undefined,
             query |-> ZodObject([f |-> "optString"], "strict"),
             body |-> ZodObject([t |-> "string"], "strip"),
             responses |-> (200 :> ItemResponse) @@ (204 :> NoBody)]),
        Entry("posts", Router(<<
            Entry("create",
                [method |-> "POST", path |-> <<"/", "p", "/", ":", "i", "d">>,
                 pathParams |-> ZodObject([id |-> "strToNum"], "strip"),
                 headers |-> ZodObject([xk |-> "string"], "strip"),
                 query |-> ZodObject([f |-> "optString"], "strip"),
                 body |-> ZodObject([t |-> "string"], "strip"),
                 strictStatusCodes |-> TRUE,
                 responses |-> (200 :> ItemResponse) @@ (204 :> NoBody)
                               @@ (201 :> OtherResponse("text/plain", Undefined))]),
            Entry("any",
                [method |-> "POST", path |-> <<"/", ":", "a", "/", ":", "b">>,
                 pathParams |-> Undefined, headers |-> Undefined,
                 query |-> Undefined, body |-> Undefined,
                 responses |-> (200 :> Undefined)])
        >>))
    >>)

\* ------------------------------------------------------------------ contract builder

\* Objects the builder is handed live in a heap, a sequence of objects
\* addressed by their index; a router's entries hold references to its
\* routes and sub-routers.  Schemas are immutable values.
Ref(a) == [ref |-> a]

\* a new object: the heap with it, and the reference to it
Alloc(heap, obj) == [heap |-> Append(heap, obj), ref |-> Ref(Len(heap) + 1)]

\* options?.baseHeaders
BaseHeadersOf(heap, options) ==
    IF options = Undefined THEN Undefined ELSE Lookup(heap[options.ref], "baseHeaders")

\* recursivelyApplyOptions merging the route's headers under the base headers
AppliedRouteRouteFirst(value, baseHeaders) ==
    Spread(value, "headers" :> zodMerge(Lookup(value, "headers"), baseHeaders))

\* recursivelyApplyOptions leaving the route's own headers out
AppliedRouteBaseOnly(value, baseHeaders) ==
    Spread(value, "headers" :> baseHeaders)

\* { ...value, headers: zodMerge(options?.baseHeaders, value.headers) }
AppliedRoute(value, baseHeaders) ==
    Spread(value, "headers" :> zodMerge(baseHeaders, Lookup(value, "headers")))

RECURSIVE ApplyOptionsFrom(_, _, _, _, _)
RECURSIVE ApplyOptionsNested(_, _, _, _, _, _)

\* the map over Object.entries(router) from entry i on, then Object.fromEntries:
\* acc holds the [key, value] pairs made so far
ApplyOptionsFrom(heap, router, i, options, acc) ==
    IF i > Len(heap[router.ref].entries) THEN Alloc(heap, Router(acc))
    ELSE IF isAppRoute(heap[heap[router.ref].entries[i].value.ref])
    THEN ApplyOptionsFrom(
             Append(heap, AppliedRoute(heap[heap[router.ref].entries[i].value.ref],
                                       BaseHeadersOf(heap, options))),
             router, i + 1, options,
             Append(acc, Entry(heap[router.ref].entries[i].key, Ref(Len(heap) + 1))))
    ELSE ApplyOptionsNested(
             ApplyOptionsFrom(heap, heap[router.ref].entries[i].value, 1, options, <<>>),
             router, i, options, acc, heap[router.ref].entries[i].key)

\* recursivelyApplyOptions keeping a nested router as it was handed in
ApplyOptionsNestedKept(nested, router, i, options, acc, key) ==
    ApplyOptionsFrom(nested.heap, router, i + 1, options,
                     Append(acc, Entry(key, nested.heap[router.ref].entries[i].value)))

\* [key, recursivelyApplyOptions(value, options)] once the recursion has returned
ApplyOptionsNested(nested, router, i, options, acc, key) ==
    ApplyOptionsFrom(nested.heap, router, i + 1, options, Append(acc, Entry(key, nested.ref)))

RECURSIVE ApplyOptionsInPlaceFrom(_, _, _, _)
\* the options written into the route objects handed in
ApplyOptionsInPlaceFrom(heap, router, i, options) ==
    IF i > Len(heap[router.ref].entries) THEN [heap |-> heap, ref |-> router]
    ELSE IF isAppRoute(heap[heap[router.ref].entries[i].value.ref])
    THEN ApplyOptionsInPlaceFrom(
             [heap EXCEPT ![heap[router.ref].entries[i].value.ref] =
                 AppliedRoute(@, BaseHeadersOf(heap, options))],
             router, i + 1, options)
    ELSE ApplyOptionsInPlaceFrom(
             ApplyOptionsInPlaceFrom(heap, heap[router.ref].entries[i].value, 1, options).heap,
             router, i + 1, options)

\* recursivelyApplyOptions assigning value.headers instead of copying the route
recursivelyApplyOptionsInPlace(heap, router, options) ==
    ApplyOptionsInPlaceFrom(heap, router, 1, options)

recursivelyApplyOptions(heap, router, options) ==
    ApplyOptionsFrom(heap, router, 1, options, <<>>)

\* initContract().router
contractRouter(heap, endpoints, options) == recursivelyApplyOptions(heap, endpoints, options)

RECURSIVE Deref(_, _)
\* the tree a reference stands for, as a value
Deref(heap, r) ==
    IF isAppRoute(heap[r.ref]) THEN heap[r.ref]
    ELSE Router([i \in 1..Len(heap[r.ref].entries) |->
                    Entry(heap[r.ref].entries[i].key, Deref(heap, heap[r.ref].entries[i].value))])

\* the implementation tree: one function per leaf, named by its keys
Implementation ==
    [get |-> [fn |-> "get"], getItem |-> [fn |-> "getItem"],
     posts |-> [create |-> [fn |-> "posts.create"], any |-> [fn |-> "posts.any"]]]

\* ------------------------------------------------------------------ errors

RequestValidationError(pathParams, headers, query, body) ==
    [name |-> "RequestValidationError",
     pathParams |-> pathParams, headers |-> headers, query |-> query, body |-> body]

ResponseValidationError(cause) == [name |-> "ResponseValidationError", cause |-> cause]

TsRestResponseError(statusCode, body) ==
    [name |-> "TsRestResponseError", statusCode |-> statusCode, body |-> body]

UnknownError == [name |-> "Error"]

\* ------------------------------------------------------------------ core helpers

\* JSON.parse of one query-string value; a value that is no JSON stays a string
JsonParse(v) ==
    IF v.t # "str" THEN v
    ELSE IF v.v \in Numerals THEN Num(v.v)
    ELSE IF v.v = "\"v\"" THEN Str("v")
    ELSE v

parseJsonQueryObject(query) == Obj([k \in DOMAIN query.f |-> JsonParse(query.f[k])])

\* the schema a response entry validates the body against
ResponseSchemaOf(responseType) ==
    IF isAppRouteOtherResponse(responseType) THEN responseType.body ELSE responseType

\* validateResponse after the check of the body: the validated response, or
\* the ResponseValidationError it throws
ValidatedResponse(response, responseValidation) ==
    IF responseValidation.success
    THEN [ok |-> TRUE, status |-> response.status, body |-> responseValidation.data]
    ELSE [ok |-> FALSE, error |-> ResponseValidationError(responseValidation.error)]

validateResponse(responseType, response) ==
    ValidatedResponse(response,
        checkZodSchema(response.body, ResponseSchemaOf(responseType), FALSE))

\* ------------------------------------------------------------------ request state

\* What one request has led to so far.
\*   validated  the request validations that ran
\*   implCalls  how often an implementation function was invoked, implArgs with what
\*   res        the response: status, how it was sent (end/json/send), body, content type
\*   handled    the errors given to the error handler (Next errorHandler, Express next)
\*   thrown     the errors thrown out of the handler
NoResponse == [status |-> 0, how |-> "none", body |-> Undefined, contentType |-> ""]

Fresh ==
    [pc |-> "idle", route |-> Null, args |-> Undefined, validated |-> {},
     results |-> Undefined, implCalls |-> 0, implArgs |-> Undefined, outcome |-> Undefined,
     res |-> NoResponse, handled |-> <<>>, thrown |-> <<>>]

\* res.status(code).end() / .json(body) / .send(body)
Respond(st, status, how, body) ==
    [st EXCEPT !.pc = "done",
               !.res = [@ EXCEPT !.status = status, !.how = how, !.body = body]]

\* the call of an implementation function, which the handler then awaits
Invoke(st, implArgs) ==
    [st EXCEPT !.pc = "awaiting", !.implCalls = @ + 1, !.implArgs = implArgs]

\* ------------------------------------------------------------------ Next adapter

RECURSIVE mergeRouterAndImplementation(_, _)
mergeRouterAndImplementation(router, implementation) ==
    Router([i \in 1..Len(router.entries) |->
        Entry(router.entries[i].key,
              IF isAppRoute(router.entries[i].value)
              THEN Spread(router.entries[i].value,
                          "implementation" :> implementation[router.entries[i].key])
              ELSE mergeRouterAndImplementation(router.entries[i].value,
                                                implementation[router.entries[i].key]))])

isAppRouteWithImplementation(obj) ==
    /\ "implementation" \in DOMAIN obj
    /\ obj.implementation # Undefined
    /\ "method" \in DOMAIN obj

\* `if (route) return route`, else on with the next key
FoundOr(route, next) == IF route # Null THEN route ELSE next

RECURSIVE RouteImplementationFrom(_, _, _, _)
\* the for loop of getRouteImplementation from key i on
RouteImplementationFrom(router, i, query, method) ==
    IF i > Len(router.entries) THEN Null
    ELSE IF isAppRouteWithImplementation(router.entries[i].value)
    THEN IF isRouteCorrect(router.entries[i].value, query, method)
         THEN router.entries[i].value
         ELSE RouteImplementationFrom(router, i + 1, query, method)
    ELSE FoundOr(RouteImplementationFrom(router.entries[i].value, 1, query, method),
                 RouteImplementationFrom(router, i + 1, query, method))

RECURSIVE RouteImplementationLastFrom(_, _, _, _)
\* the loop going on after a match, so that the last matching leaf is returned
RouteImplementationLastFrom(router, i, query, method) ==
    IF i > Len(router.entries) THEN Null
    ELSE FoundOr(RouteImplementationLastFrom(router, i + 1, query, method),
                 IF isAppRouteWithImplementation(router.entries[i].value)
                 THEN IF isRouteCorrect(router.entries[i].value, query, method)
                      THEN router.entries[i].value ELSE Null
                 ELSE RouteImplementationLastFrom(router.entries[i].value, 1, query, method))

\* getRouteImplementation returning the last matching leaf
getRouteImplementationLast(router, query, method) ==
    RouteImplementationLastFrom(router, 1, query, method)

\* getRouteImplementation that takes the first leaf whatever the request
getRouteImplementationFirstLeaf(router, query, method) == router.entries[1].value

getRouteImplementation(router, query, method) ==
    RouteImplementationFrom(router, 1, query, method)

\* { 'ts-rest': params, ...query } = req.query
WithoutKey(f, key) == [k \in (DOMAIN f) \ {key} |-> f[k]]

\* params = (params as string[]) || []
CatchAllOf(req) ==
    IF "ts-rest" \in DOMAIN req.query.f THEN req.query.f["ts-rest"].v ELSE <<>>

\* what createNextRouter returns to handlerFactory, with pathParams left empty
ArgumentsNoParams(params, query, route) ==
    [pathParams |-> EmptyFn, query |-> query, route |-> route]

\* what createNextRouter returns to handlerFactory: { pathParams, query, route }
Arguments(params, query, route) ==
    [pathParams |-> IF route # Null THEN getPathParamsFromArray(params, route) ELSE EmptyFn,
     query |-> query,
     route |-> route]

\* the getArgumentsFromRequest of createNextRouter
createNextRouter(routes, obj, req) ==
    Arguments(CatchAllOf(req),
              Obj(WithoutKey(req.query.f, "ts-rest")),
              getRouteImplementation(mergeRouterAndImplementation(routes, obj),
                                     CatchAllOf(req), req.method))

\* the catch of handlerFactory answering 500 and rethrowing as well
HandlerCatchAnswerAndThrow(st, e, options) ==
    [Respond(st, 500, "end", Undefined) EXCEPT !.thrown = Append(@, e)]

\* the catch of handlerFactory that loses the error
HandlerCatchSwallow(st, e, options) == [st EXCEPT !.pc = "done"]

\* the catch of handlerFactory: the error handler when one is configured, else rethrow
HandlerCatch(st, e, options) ==
    IF options.errorHandler
    THEN [st EXCEPT !.pc = "done", !.handled = Append(@, e)]
    ELSE [st EXCEPT !.pc = "done", !.thrown = Append(@, e)]

OrNull(e) == IF e # Undefined THEN e ELSE Null

\* the test that guards the validation branch of handlerFactory, without the headers
AnyErrorButHeaders(pathParamsResult, headersResult, queryResult, bodyResult) ==
    \/ pathParamsResult.error # Undefined
    \/ queryResult.error # Undefined
    \/ bodyResult.error # Undefined

\* handlerFactory: pathParamsResult.error || headersResult.error || ...
AnyError(pathParamsResult, headersResult, queryResult, bodyResult) ==
    \/ pathParamsResult.error # Undefined
    \/ headersResult.error # Undefined
    \/ queryResult.error # Undefined
    \/ bodyResult.error # Undefined

\* the 400 written for the last failing category instead of the first
RespondLastError(st, pathParamsResult, headersResult, queryResult, bodyResult) ==
    IF bodyResult.error # Undefined THEN Respond(st, 400, "json", bodyResult.error)
    ELSE IF queryResult.error # Undefined THEN Respond(st, 400, "json", queryResult.error)
    ELSE IF headersResult.error # Undefined THEN Respond(st, 400, "send", headersResult.error)
    ELSE IF pathParamsResult.error # Undefined THEN Respond(st, 400, "json", pathParamsResult.error)
    ELSE st

\* handlerFactory: the chain of `if (xResult.error) return res.status(400)...`
\* (falls through, unchanged, when no category failed)
RespondFirstError(st, pathParamsResult, headersResult, queryResult, bodyResult) ==
    IF pathParamsResult.error # Undefined THEN Respond(st, 400, "json", pathParamsResult.error)
    ELSE IF headersResult.error # Undefined THEN Respond(st, 400, "send", headersResult.error)
    ELSE IF queryResult.error # Undefined THEN Respond(st, 400, "json", queryResult.error)
    ELSE IF bodyResult.error # Undefined THEN Respond(st, 400, "json", bodyResult.error)
    ELSE st

\* RequestValidationError built with the results in another order
ThrownValidationErrorShifted(pathParamsResult, headersResult, queryResult, bodyResult) ==
    RequestValidationError(OrNull(headersResult.error), OrNull(queryResult.error),
                           OrNull(bodyResult.error), OrNull(pathParamsResult.error))

\* handlerFactory: new RequestValidationError(pathParamsResult.error || null, ...)
ThrownValidationError(pathParamsResult, headersResult, queryResult, bodyResult) ==
    RequestValidationError(OrNull(pathParamsResult.error), OrNull(headersResult.error),
                           OrNull(queryResult.error), OrNull(bodyResult.error))

\* handlerFactory: `if (any error) { throw or answer 400 }`; the state is
\* returned unchanged when the branch is not taken or falls through
ValidationBranch(st, options, pathParamsResult, headersResult, queryResult, bodyResult) ==
    IF AnyError(pathParamsResult, headersResult, queryResult, bodyResult)
    THEN IF options.throwRequestValidation
         THEN HandlerCatch(st,
                  ThrownValidationError(pathParamsResult, headersResult, queryResult, bodyResult),
                  options)
         ELSE RespondFirstError(st, pathParamsResult, headersResult, queryResult, bodyResult)
    ELSE st

\* handlerFactory: route.implementation({ body, query, params, headers, req, res })
InvokeImplementation(st, pathParamsResult, headersResult, queryResult, bodyResult) ==
    Invoke(st, [fn |-> st.route.implementation.fn,
                body |-> bodyResult.value,
                query |-> queryResult.value,
                params |-> pathParamsResult.value,
                headers |-> headersResult.value])

\* the handler returned inside the validation branch, or goes on to the implementation
AfterValidation(branch, st, pathParamsResult, headersResult, queryResult, bodyResult) ==
    IF branch.pc = "done" THEN branch
    ELSE InvokeImplementation(st, pathParamsResult, headersResult, queryResult, bodyResult)

\* handlerFactory once the four results are there
HandlerChecked(st, options, pathParamsResult, headersResult, queryResult, bodyResult) ==
    AfterValidation(
        ValidationBranch(st, options, pathParamsResult, headersResult, queryResult, bodyResult),
        st, pathParamsResult, headersResult, queryResult, bodyResult)

\* the four results are recorded in the request state
HandlerResults(st, options, pathParamsResult, headersResult, queryResult, bodyResult) ==
    HandlerChecked(
        [st EXCEPT !.validated = {"pathParams", "headers", "query", "body"},
                   !.results = [pathParams |-> pathParamsResult, headers |-> headersResult,
                                query |-> queryResult, body |-> bodyResult]],
        options, pathParamsResult, headersResult, queryResult, bodyResult)

\* handlerFactory, from the request to the call of the implementation
HandlerBegin(args, options, req) ==
    IF args.route = Null
    THEN Respond([Fresh EXCEPT !.args = args], 404, "end", Undefined)
    ELSE HandlerResults(
             [Fresh EXCEPT !.route = args.route, !.args = args], options,
             checkStandardSchema(Obj(args.pathParams), args.route.pathParams, TRUE),
             checkStandardSchema(req.headers, args.route.headers, TRUE),
             checkStandardSchema(IF options.jsonQuery
                                 THEN parseJsonQueryObject(args.query) ELSE req.query,
                                 args.route.query, FALSE),
             checkStandardSchema(req.body, args.route.body, FALSE))

\* the inner try/catch with every thrown value taken for an error
ImplementationResultNoSignal(outcome) ==
    IF outcome.kind = "return"
    THEN [isResult |-> TRUE, result |-> [status |-> outcome.status, body |-> outcome.body]]
    ELSE [isResult |-> FALSE, error |-> outcome.error]

\* handlerFactory: the inner try/catch around `await route.implementation(...)`
ImplementationResult(outcome) ==
    IF outcome.kind = "return"
    THEN [isResult |-> TRUE, result |-> [status |-> outcome.status, body |-> outcome.body]]
    ELSE IF outcome.error.name = "TsRestResponseError"
    THEN [isResult |-> TRUE,
          result |-> [status |-> outcome.error.statusCode, body |-> outcome.error.body]]
    ELSE [isResult |-> FALSE, error |-> outcome.error]

\* every response written as JSON, whatever its registered entry
WriteResponseJson(st, options, responseType, statusCode, response) ==
    IF ~response.ok THEN HandlerCatch(st, response.error, options)
    ELSE Respond(st, statusCode, "json", response.body)

\* handlerFactory: the response is written as its registered entry says
WriteResponse(st, options, responseType, statusCode, response) ==
    IF ~response.ok THEN HandlerCatch(st, response.error, options)
    ELSE IF isAppRouteNoBody(responseType) THEN Respond(st, statusCode, "end", Undefined)
    ELSE IF isAppRouteOtherResponse(responseType)
    THEN Respond([st EXCEPT !.res.contentType = responseType.contentType],
                 statusCode, "send", response.body)
    ELSE Respond(st, statusCode, "json", response.body)

\* the writing of the implementation's body as it came, validated or not
HandlerRespondRaw(st, options, responseType, result) ==
    WriteResponse(st, options, responseType, result.status,
        [ok |-> TRUE, status |-> result.status, body |-> result.body])

\* handlerFactory: the optional validateResponse, then the writing
HandlerRespond(st, options, responseType, result) ==
    WriteResponse(st, options, responseType, result.status,
        IF options.responseValidation
        THEN validateResponse(responseType, result)
        ELSE [ok |-> TRUE, status |-> result.status, body |-> result.body])

\* a status the route does not declare is refused with a 500
HandlerSettledDeclaredOnly(st, options, settled) ==
    IF ~settled.isResult THEN HandlerCatch(st, settled.error, options)
    ELSE IF settled.result.status \notin DOMAIN st.route.responses
    THEN Respond(st, 500, "end", Undefined)
    ELSE HandlerRespond(st, options,
                        Lookup(st.route.responses, settled.result.status), settled.result)

HandlerSettled(st, options, settled) ==
    IF ~settled.isResult THEN HandlerCatch(st, settled.error, options)
    ELSE HandlerRespond(st, options,
                        Lookup(st.route.responses, settled.result.status), settled.result)

\* handlerFactory, from the settling of the implementation to the response
HandlerSettle(st, options, outcome) ==
    HandlerSettled([st EXCEPT !.outcome = outcome], options, ImplementationResult(outcome))

\* ------------------------------------------------------------------ Express adapter

\* validateRequest answering for the query before the headers
ValidateRequestResultsQueryFirst(st, paramsResult, headersResult, queryResult) ==
    IF ~paramsResult.success
    THEN Respond([st EXCEPT !.validated = {"pathParams"}], 400, "send", paramsResult.error)
    ELSE IF ~queryResult.success
    THEN Respond([st EXCEPT !.validated = {"pathParams", "headers", "query"}],
                 400, "send", queryResult.error)
    ELSE IF ~headersResult.success
    THEN Respond([st EXCEPT !.validated = {"pathParams", "headers"}],
                 400, "send", headersResult.error)
    ELSE [st EXCEPT !.validated = {"pathParams", "headers", "query"},
                    !.results = [paramsResult |-> paramsResult,
                                 headersResult |-> headersResult,
                                 queryResult |-> queryResult]]

\* validateRequest once the three results are there: each failure is answered
\* with a 400 and hides the checks after it
ValidateRequestResults(st, paramsResult, headersResult, queryResult) ==
    IF ~paramsResult.success
    THEN Respond([st EXCEPT !.validated = {"pathParams"}], 400, "send", paramsResult.error)
    ELSE IF ~headersResult.success
    THEN Respond([st EXCEPT !.validated = {"pathParams", "headers"}],
                 400, "send", headersResult.error)
    ELSE IF ~queryResult.success
    THEN Respond([st EXCEPT !.validated = {"pathParams", "headers", "query"}],
                 400, "send", queryResult.error)
    ELSE [st EXCEPT !.validated = {"pathParams", "headers", "query"},
                    !.results = [paramsResult |-> paramsResult,
                                 headersResult |-> headersResult,
                                 queryResult |-> queryResult]]

\* validateRequest: the request state after it; pc is "done" when it answered 400
validateRequest(st, req, schema, options) ==
    ValidateRequestResults(st,
        checkZodSchema(req.params, schema.pathParams, TRUE),
        checkZodSchema(req.headers, schema.headers, TRUE),
        checkZodSchema(IF options.jsonQuery THEN parseJsonQueryObject(req.query) ELSE req.query,
                       schema.query, FALSE))

QueryInvoke(route, st) ==
    IF st.pc = "done" THEN st
    ELSE Invoke(st, [fn |-> route.fn,
                     params |-> st.results.paramsResult.data,
                     query |-> st.results.queryResult.data,
                     headers |-> st.results.headersResult.data])

\* the handler of transformAppRouteQueryImplementation up to `await route(...)`
QueryImplementationBegin(route, schema, options, req) ==
    QueryInvoke(route, validateRequest([Fresh EXCEPT !.route = schema], req, schema, options))

MutationInvoke(route, st, bodyResult) ==
    IF st.pc = "done" THEN st
    ELSE IF ~bodyResult.success
    THEN Respond([st EXCEPT !.validated = @ \cup {"body"}], 400, "send", bodyResult.error)
    ELSE Invoke([st EXCEPT !.validated = @ \cup {"body"}],
                [fn |-> route.fn,
                 params |-> st.results.paramsResult.data,
                 body |-> bodyResult.data,
                 query |-> st.results.queryResult.data,
                 headers |-> st.results.headersResult.data])

\* the handler of transformAppRouteMutationImplementation up to `await route(...)`
MutationImplementationBegin(route, schema, options, req) ==
    MutationInvoke(route,
        validateRequest([Fresh EXCEPT !.route = schema], req, schema, options),
        checkZodSchema(req.body, schema.body, FALSE))

\* createExpressEndpoints: GET routes get the query handler, the others the mutation handler
ExpressBegin(route, schema, options, req) ==
    IF schema.method = "GET"
    THEN QueryImplementationBegin(route, schema, options, req)
    ELSE MutationImplementationBegin(route, schema, options, req)

\* `catch (e) { return next(e); }`
ExpressCatch(st, e) == [st EXCEPT !.pc = "done", !.handled = Append(@, e)]

ExpressValidated(st, statusCode, response) ==
    IF response.ok THEN Respond(st, statusCode, "json", response.body)
    ELSE ExpressCatch(st, response.error)

ExpressSettled(st, options, outcome) ==
    IF outcome.kind # "return" THEN ExpressCatch(st, outcome.error)
    ELSE IF options.responseValidation
    THEN ExpressValidated(st, outcome.status,
             validateResponse(Lookup(st.route.responses, outcome.status),
                              [status |-> outcome.status, body |-> outcome.body]))
    ELSE Respond(st, outcome.status, "json", outcome.body)

\* both Express handlers from the settling of `await route(...)` on
ExpressSettle(st, options, outcome) ==
    ExpressSettled([st EXCEPT !.outcome = outcome], options, outcome)

\* ------------------------------------------------------------------ Nest adapter

BadRequestException(error) == [name |-> "BadRequestException", response |-> error]
InternalServerErrorException(error) == [name |-> "InternalServerErrorException", response |-> error]

\* an exception leaves the decorator or the interceptor for Nest's exception layer
NestThrow(st, e) == [st EXCEPT !.pc = "done", !.thrown = Append(@, e)]

\* ApiDecorator once the results are there; the controller method is called
\* with what it returns
ApiDecorated(st, queryResult, bodyResult, pathParamsResult) ==
    IF ~queryResult.success
    THEN NestThrow([st EXCEPT !.validated = {"query"}],
                   BadRequestException(queryResult.error))
    ELSE IF ~bodyResult.success
    THEN NestThrow([st EXCEPT !.validated = {"query", "body"}],
                   BadRequestException(bodyResult.error))
    ELSE IF ~pathParamsResult.success
    THEN NestThrow([st EXCEPT !.validated = {"query", "body", "pathParams"}],
                   BadRequestException(pathParamsResult.error))
    ELSE Invoke([st EXCEPT !.validated = {"query", "body", "pathParams"}],
                [fn |-> "controller",
                 query |-> queryResult.data,
                 params |-> pathParamsResult.data,
                 body |-> bodyResult.data])

ApiDecorator(appRoute, isJsonQuery, req) ==
    ApiDecorated([Fresh EXCEPT !.route = appRoute],
        checkZodSchema(IF isJsonQuery THEN parseJsonQueryObject(req.query) ELSE req.query,
                       appRoute.query, FALSE),
        checkZodSchema(req.body, IF appRoute.method = "GET" THEN Null ELSE appRoute.body, FALSE),
        checkZodSchema(req.params, appRoute.pathParams, TRUE))

\* res.status(statusNumber) moved before the check of the validation
InterceptorMappedStatusFirst(st, statusNumber, responseValidation) ==
    IF ~responseValidation.success
    THEN NestThrow([st EXCEPT !.res.status = statusNumber],
                   InternalServerErrorException(responseValidation.error))
    ELSE Respond(st, statusNumber, "return", responseValidation.data)

InterceptorMapped(st, statusNumber, responseValidation) ==
    IF ~responseValidation.success
    THEN NestThrow(st, InternalServerErrorException(responseValidation.error))
    ELSE Respond(st, statusNumber, "return", responseValidation.data)

InterceptorSettled(st, isParsingEnabled, outcome) ==
    IF outcome.kind # "return" THEN NestThrow(st, outcome.error)
    ELSE InterceptorMapped(st, outcome.status,
             checkZodSchema(outcome.body,
                            IF isParsingEnabled
                            THEN Lookup(st.route.responses, outcome.status) ELSE Undefined,
                            FALSE))

\* ApiRouteInterceptor.intercept: the map over what the controller method returned;
\* an error of the controller passes the map untouched
ApiRouteInterceptor(st, isParsingEnabled, outcome) ==
    InterceptorSettled([st EXCEPT !.outcome = outcome], isParsingEnabled, outcome)

\* ------------------------------------------------------------------ SpecMatch

PathChars == {"/", ":", "a"}
Methods == {"GET", "POST"}

RECURSIVE SeqsUpTo(_, _)
SeqsUpTo(S, n) ==
    IF n = 0 THEN {<<>>}
    ELSE LET shorter == SeqsUpTo(S, n - 1)
         IN  shorter \cup {Append(q, c) : q \in shorter, c \in S}

\* path templates and URLs: they start with '/'
Paths == {<<"/">> \o q : q \in SeqsUpTo(PathChars, MaxPathLen - 1)}

NotRun == [run |-> FALSE]

FnOff ==
    /\ fnIn = Undefined
    /\ fnOut = NotRun

MatchOff ==
    /\ mRoute = [method |-> "GET", path |-> <<"/">>]
    /\ mUrl = <<"/">>
    /\ mMethod = "GET"
    /\ mOut = NotRun

\* what a request for mUrl looks like to the router: the segment strings
UrlSegments(url) == [i \in 1..Len(Slice1(Split(url))) |-> StrOf(Slice1(Split(url))[i])]

ServerOff ==
    /\ adapter = "none"
    /\ opts = Undefined
    /\ curReq = Undefined
    /\ conn = Fresh

MatchInit ==
    /\ ServerOff
    /\ FnOff
    /\ mRoute \in {[method |-> m, path |-> p] : m \in Methods, p \in Paths}
    /\ mUrl \in Paths
    /\ mMethod \in Methods
    /\ mOut = NotRun

MatchApply ==
    /\ mOut = NotRun
    /\ mOut' = [run |-> TRUE,
                match |-> isRouteCorrect(mRoute, UrlSegments(mUrl), mMethod),
                params |-> getPathParamsFromArray(UrlSegments(mUrl), mRoute)]
    /\ UNCHANGED <<mRoute, mUrl, mMethod>>
    /\ UNCHANGED serverVars
    /\ UNCHANGED fnVars

MatchNext == MatchApply

SpecMatch == MatchInit /\ [][MatchNext]_vars

\* ------------------------------------------------------------------ SpecCheck

\* the values checkZodSchema is called with
CheckData ==
    {Undefined, Null, Str("s"), Arr(<<>>), Arr(<<Str("a")>>), EmptyObj,
     Obj([a |-> Num("1")]), Obj([a |-> Num("1"), b |-> Num("2")]), Obj([a |-> Str("1")])}

\* the schema arguments: absent, not a schema (the cases of the unit test),
\* and zod schemas
CheckSchemas ==
    {Undefined, Null, Str(""), Obj([a |-> Str("123")]),
     ZodObject([a |-> "number"], "strip"), ZodObject([a |-> "number"], "strict"),
     ZodObject([a |-> "number"], "passthrough"), ZodObject([a |-> "strToNum"], "strip"),
     ZodArray("string")}

CheckInit ==
    /\ ServerOff
    /\ MatchOff
    /\ fnIn \in {[fn |-> "checkZodSchema", data |-> d, schema |-> c, passThroughExtraKeys |-> x] :
                     d \in CheckData, c \in CheckSchemas, x \in BOOLEAN}
    /\ fnOut = NotRun

CheckApply ==
    /\ fnOut = NotRun
    /\ fnOut' = [run |-> TRUE,
                 result |-> checkZodSchema(fnIn.data, fnIn.schema, fnIn.passThroughExtraKeys)]
    /\ UNCHANGED <<fnIn, matchVars, serverVars>>

CheckNext == CheckApply

SpecCheck == CheckInit /\ [][CheckNext]_vars

\* ------------------------------------------------------------------ SpecBuild

UnknownKeysPolicies == {"strip", "strict", "passthrough"}

\* the headers schemas of the router options and of the route: absent, or a
\* z.object of one field
HeaderSchemas ==
    {Undefined} \cup
    {ZodObject(shape, p) : shape \in {[foo |-> "string"], [bar |-> "string"], [foo |-> "optString"]},
                           p \in UnknownKeysPolicies}

\* the headers validated against the merged schema
MergeData ==
    {Obj([foo |-> Str("foo"), bar |-> Str("bar"), baz |-> Str("baz")]),
     Obj([foo |-> Str("foo"), bar |-> Str("bar")]),
     Obj([bar |-> Str("bar")]),
     EmptyObj}

\* the heap before the call: the options object, the route `r`, the route
\* `q` of the sub-router `sub`, and the root router handed to c.router
BuildHeap(baseHeaders, headers) ==
    << [baseHeaders |-> baseHeaders],
       [method |-> "GET", path |-> <<"/", "t">>, headers |-> headers,
        responses |-> (200 :> Undefined)],
       [method |-> "POST", path |-> <<"/", "p">>, body |-> Undefined,
        responses |-> (200 :> Undefined)],
       Router(<<Entry("q", Ref(3))>>),
       Router(<<Entry("r", Ref(2)), Entry("sub", Ref(4))>>) >>

RootRef == Ref(Len(BuildHeap(Undefined, Undefined)))

BuildInit ==
    /\ ServerOff
    /\ MatchOff
    /\ fnIn \in {[fn |-> "router", heap |-> BuildHeap(a, b), endpoints |-> RootRef,
                   options |-> o, data |-> d] :
                     a \in HeaderSchemas, b \in HeaderSchemas,
                     o \in {Undefined, Ref(1)}, d \in MergeData}
    /\ fnOut = NotRun

\* fnOut after a call of c.router: the heap it left and the trees returned so far
Built(out, trees) == [run |-> TRUE, heap |-> out.heap, trees |-> Append(trees, out.ref)]

\* c.router(endpoints, options) is called
BuildApply ==
    /\ fnOut = NotRun
    /\ fnIn.fn = "router"
    /\ fnOut' = Built(contractRouter(fnIn.heap, fnIn.endpoints, fnIn.options), <<>>)
    /\ UNCHANGED <<fnIn, matchVars, serverVars>>

\* c.router is called a second time with the same arguments
BuildAgain ==
    /\ fnOut # NotRun
    /\ fnIn.fn = "router"
    /\ Len(fnOut.trees) = 1
    /\ fnOut' = Built(contractRouter(fnOut.heap, fnIn.endpoints, fnIn.options), fnOut.trees)
    /\ UNCHANGED <<fnIn, matchVars, serverVars>>

BuildNext ==
    \/ BuildApply
    \/ BuildAgain

SpecBuild == BuildInit /\ [][BuildNext]_vars

\* ------------------------------------------------------------------ SpecCompose

\* true and false as values of an object's field
Bool(b) == [t |-> "bool", v |-> b]

\* the options object handed to c.router, from the fields written in it
RouterOptions(baseHeaders, pathPrefix, strictStatusCodes, commonResponses) ==
    Spread(Spread(baseHeaders, pathPrefix), Spread(strictStatusCodes, commonResponses))

InnerPrefix == <<"/", "p", "o", "s", "t", "s">>
OuterPrefix == <<"/", "v", "1">>

NotFoundResponse == ZodObject([message |-> "string"], "strip")
CommonNotFound == ZodObject([reason |-> "string"], "strip")
OuterNotFound == ZodObject([why |-> "string"], "strip")

\* the options of the inner and of the outer c.router call
InnerOptions ==
    {RouterOptions(h, p, s, c) :
        h \in {EmptyFn, [baseHeaders |-> ZodObject([foo |-> "string"], "strip")]},
        p \in {EmptyFn, [pathPrefix |-> InnerPrefix]},
        s \in {EmptyFn, [strictStatusCodes |-> Bool(TRUE)], [strictStatusCodes |-> Bool(FALSE)]},
        c \in {EmptyFn, [commonResponses |-> (404 :> CommonNotFound)]}}
OuterOptions ==
    {RouterOptions(h, p, s, c) :
        h \in {EmptyFn, [baseHeaders |-> ZodObject([bar |-> "string"], "strict")]},
        p \in {EmptyFn, [pathPrefix |-> OuterPrefix]},
        s \in {EmptyFn, [strictStatusCodes |-> Bool(TRUE)], [strictStatusCodes |-> Bool(FALSE)]},
        c \in {EmptyFn, [commonResponses |-> (404 :> OuterNotFound) @@ (500 :> NoBody)]}}

\* the route getPost as written: optional fields are left out
GetPostBase == [method |-> "GET", path |-> <<"/", ":", "i", "d">>]
GetPostRoutes ==
    {Spread(Spread(GetPostBase, h), Spread(s, [responses |-> r])) :
        h \in {EmptyFn, [headers |-> ZodObject([foo |-> "optString"], "passthrough")]},
        s \in {EmptyFn, [strictStatusCodes |-> Bool(TRUE)], [strictStatusCodes |-> Bool(FALSE)]},
        r \in {(200 :> Undefined), (200 :> Undefined) @@ (404 :> NotFoundResponse)}}

\* the heap before the calls: the two options objects, the route getPost,
\* the route top, and the tree { getPost } handed to the inner call
ComposeHeap(inner, outer, getPost) ==
    << inner,
       outer,
       getPost,
       [method |-> "POST", path |-> <<"/", "t", "o", "p">>, body |-> Undefined,
        responses |-> (201 :> Undefined)],
       Router(<<Entry("getPost", Ref(3))>>) >>

ComposeInit ==
    /\ ServerOff
    /\ MatchOff
    /\ fnIn \in {[fn |-> "compose", heap |-> ComposeHeap(i, o, g), endpoints |-> Ref(5),
                   innerOptions |-> io, outerOptions |-> Ref(2)] :
                     i \in InnerOptions, o \in OuterOptions, g \in GetPostRoutes,
                     io \in {Undefined, Ref(1)}}
    /\ fnOut = NotRun

\* const postsContractNested = c.router({ getPost }, innerOptions)
ComposeInner ==
    /\ fnOut = NotRun
    /\ fnIn.fn = "compose"
    /\ fnOut' = Built(contractRouter(fnIn.heap, fnIn.endpoints, fnIn.innerOptions), <<>>)
    /\ UNCHANGED <<fnIn, matchVars, serverVars>>

\* c.router(endpoints, options) on the object literal just allocated
RouterOfLiteral(literal, options) == contractRouter(literal.heap, literal.ref, options)

\* const postsContract = c.router({ posts: postsContractNested, top }, outerOptions)
ComposeOuter ==
    /\ fnOut # NotRun
    /\ fnIn.fn = "compose"
    /\ Len(fnOut.trees) = 1
    /\ fnOut' = Built(RouterOfLiteral(Alloc(fnOut.heap,
                                            Router(<<Entry("posts", fnOut.trees[1]),
                                                     Entry("top", Ref(4))>>)),
                                      fnIn.outerOptions),
                      fnOut.trees)
    /\ UNCHANGED <<fnIn, matchVars, serverVars>>

ComposeNext ==
    \/ ComposeInner
    \/ ComposeOuter

SpecCompose == ComposeInit /\ [][ComposeNext]_vars

\* ------------------------------------------------------------------ Spec

RECURSIVE LeavesOf(_, _)
\* the leaves of a contract with their implementation functions, as
\* recursivelyApplyExpressRouter and getValue pair them
LeavesOf(router, implementation) ==
    UNION {LET e == router.entries[i]
           IN  IF isAppRoute(e.value)
               THEN {[schema |-> e.value, route |-> implementation[e.key]]}
               ELSE LeavesOf(e.value, implementation[e.key])
           : i \in 1..Len(router.entries)}

SegmentSamples == {<<"t">>, <<"t", "3">>, <<"t", "x">>, <<"p", "3">>, <<"w">>}
HeaderSamples == {Obj([host |-> Str("h")]), Obj([host |-> Str("h"), xk |-> Str("k")])}
QuerySamples == {EmptyFn, [f |-> Str("\"v\"")], [f |-> Str("1")]}
BodySamples == {Undefined, EmptyObj, Obj([t |-> Str("x")]), Obj([t |-> Str("x"), u |-> Str("y")])}

\* a Next request: the catch-all segments arrive as the query key 'ts-rest'
\* (absent for the root URL)
NextRequests ==
    {[method |-> m, query |-> Obj(q), headers |-> h, body |-> b] :
        m \in Methods,
        q \in QuerySamples \cup {Spread(x, "ts-rest" :> Arr(g)) : x \in QuerySamples, g \in SegmentSamples},
        h \in HeaderSamples, b \in BodySamples}

\* a request as Express or Nest hands it to the handler of `leaf`: the
\* framework has matched the path and cut req.params from it
FrameworkRequests(leaf) ==
    {[method |-> leaf.method, params |-> Obj(getPathParamsFromArray(g, leaf)),
      query |-> Obj(q), headers |-> h, body |-> b] :
        g \in {x \in SegmentSamples : isRouteCorrect(leaf, x, leaf.method)},
        q \in QuerySamples, h \in HeaderSamples, b \in BodySamples}

ResponseBodies ==
    {Obj([id |-> Num("1")]), Obj([id |-> Num("1"), x |-> Str("y")]), Obj([id |-> Str("bad")])}

\* how an implementation function settles: it returns {status, body} or throws
Outcomes ==
    {[kind |-> "return", status |-> s, body |-> b] : s \in {200, 201, 204, 404}, b \in ResponseBodies}
    \cup {[kind |-> "throw", error |-> TsRestResponseError(s, b)] : s \in {200, 404}, b \in ResponseBodies}
    \cup {[kind |-> "throw", error |-> UnknownError]}

OptionsOf(a) ==
    {[jsonQuery |-> j, responseValidation |-> r, throwRequestValidation |-> t, errorHandler |-> e] :
        j \in BOOLEAN, r \in BOOLEAN,
        t \in (IF a = "next" THEN BOOLEAN ELSE {FALSE}),
        e \in (IF a = "next" THEN BOOLEAN ELSE {FALSE})}

Init ==
    /\ MatchOff
    /\ FnOff
    /\ adapter \in {"next", "express", "nest"}
    /\ opts \in OptionsOf(adapter)
    /\ curReq = Undefined
    /\ conn = Fresh

\* the handler createNextRouter returns is called with a request
NextRequest ==
    /\ adapter = "next"
    /\ conn.pc = "idle"
    /\ \E r \in NextRequests :
        /\ curReq' = r
        /\ conn' = HandlerBegin(createNextRouter(Contract, Implementation, r), opts, r)
    /\ UNCHANGED <<adapter, opts, matchVars, fnVars>>

\* the implementation settles and the handler goes on after its await
NextSettle ==
    /\ adapter = "next"
    /\ conn.pc = "awaiting"
    /\ \E o \in Outcomes : conn' = HandlerSettle(conn, opts, o)
    /\ UNCHANGED <<adapter, opts, curReq, matchVars, fnVars>>

ExpressRequest ==
    /\ adapter = "express"
    /\ conn.pc = "idle"
    /\ \E leaf \in LeavesOf(Contract, Implementation) :
       \E r \in FrameworkRequests(leaf.schema) :
        /\ curReq' = r
        /\ conn' = ExpressBegin(leaf.route, leaf.schema, opts, r)
    /\ UNCHANGED <<adapter, opts, matchVars, fnVars>>

ExpressResume ==
    /\ adapter = "express"
    /\ conn.pc = "awaiting"
    /\ \E o \in Outcomes : conn' = ExpressSettle(conn, opts, o)
    /\ UNCHANGED <<adapter, opts, curReq, matchVars, fnVars>>

NestRequest ==
    /\ adapter = "nest"
    /\ conn.pc = "idle"
    /\ \E leaf \in LeavesOf(Contract, Implementation) :
       \E r \in FrameworkRequests(leaf.schema) :
        /\ curReq' = r
        /\ conn' = ApiDecorator(leaf.schema, opts.jsonQuery, r)
    /\ UNCHANGED <<adapter, opts, matchVars, fnVars>>

NestResume ==
    /\ adapter = "nest"
    /\ conn.pc = "awaiting"
    /\ \E o \in Outcomes : conn' = ApiRouteInterceptor(conn, opts.responseValidation, o)
    /\ UNCHANGED <<adapter, opts, curReq, matchVars, fnVars>>

\* the request is over: its per-request values are discarded
RequestDone ==
    /\ conn.pc = "done"
    /\ curReq' = Undefined
    /\ conn' = Fresh
    /\ UNCHANGED <<adapter, opts, matchVars, fnVars>>

Next ==
    \/ RequestDone
    \/ NextRequest
    \/ NextSettle
    \/ ExpressRequest
    \/ ExpressResume
    \/ NestRequest
    \/ NestResume

Spec == Init /\ [][Next]_vars

\* ------------------------------------------------------------------ SpecConc

\* The objects createNextRouter closes over, in a heap: the routes of
\* Contract, its routers, and the implementation tree.
ContractHeap ==
    << Contract.entries[1].value,
       Contract.entries[2].value,
       Contract.entries[3].value.entries[1].value,
       Contract.entries[3].value.entries[2].value,
       Router(<<Entry("create", Ref(3)), Entry("any", Ref(4))>>),
       Router(<<Entry("get", Ref(1)), Entry("getItem", Ref(2)), Entry("posts", Ref(5))>>),
       Implementation >>

RoutesRef == Ref(6)
ObjRef == Ref(7)

RECURSIVE MergeFrom(_, _, _, _, _)
RECURSIVE MergeNested(_, _, _, _, _, _)

\* the reduce over Object.keys(router) from key i on: acc holds the
\* properties assigned to the new object so far
MergeFrom(heap, router, implementation, i, acc) ==
    IF i > Len(heap[router.ref].entries) THEN Alloc(heap, Router(acc))
    ELSE IF isAppRoute(heap[heap[router.ref].entries[i].value.ref])
    THEN MergeFrom(
             Append(heap, Spread(heap[heap[router.ref].entries[i].value.ref],
                                 "implementation" :>
                                     implementation[heap[router.ref].entries[i].key])),
             router, implementation, i + 1,
             Append(acc, Entry(heap[router.ref].entries[i].key, Ref(Len(heap) + 1))))
    ELSE MergeNested(
             MergeFrom(heap, heap[router.ref].entries[i].value,
                       implementation[heap[router.ref].entries[i].key], 1, <<>>),
             router, implementation, i, acc, heap[router.ref].entries[i].key)

\* acc[key] = mergeRouterAndImplementation(existing, existingImpl), returned
MergeNested(nested, router, implementation, i, acc, key) ==
    MergeFrom(nested.heap, router, implementation, i + 1, Append(acc, Entry(key, nested.ref)))

RECURSIVE MergeInPlaceFrom(_, _, _, _)
\* the implementations assigned into the routes of the contract itself
MergeInPlaceFrom(heap, router, implementation, i) ==
    IF i > Len(heap[router.ref].entries) THEN [heap |-> heap, ref |-> router]
    ELSE IF isAppRoute(heap[heap[router.ref].entries[i].value.ref])
    THEN MergeInPlaceFrom(
             [heap EXCEPT ![heap[router.ref].entries[i].value.ref] =
                 Spread(@, "implementation" :> implementation[heap[router.ref].entries[i].key])],
             router, implementation, i + 1)
    ELSE MergeInPlaceFrom(
             MergeInPlaceFrom(heap, heap[router.ref].entries[i].value,
                              implementation[heap[router.ref].entries[i].key], 1).heap,
             router, implementation, i + 1)

\* mergeRouterAndImplementation reducing into the router it was handed
mergeOnHeapInPlace(heap, router, implementation) ==
    MergeInPlaceFrom(heap, router, implementation, 1)

\* mergeRouterAndImplementation on the objects themselves
mergeOnHeap(heap, router, implementation) ==
    MergeFrom(heap, router, implementation, 1, <<>>)

\* createNextRouter's getArgumentsFromRequest once combinedRouter is there
ArgumentsOfCombined(combined, req) ==
    [heap |-> combined.heap,
     args |-> Arguments(CatchAllOf(req),
                        Obj(WithoutKey(req.query.f, "ts-rest")),
                        getRouteImplementation(Deref(combined.heap, combined.ref),
                                               CatchAllOf(req), req.method))]

\* the handler of createNextRouter on the objects it closes over: the heap
\* it leaves and the request state up to the call of the implementation
ServeBegin(heap, options, req) ==
    [heap |-> ArgumentsOfCombined(mergeOnHeap(heap, RoutesRef, heap[ObjRef.ref]), req).heap,
     conn |-> HandlerBegin(
                  ArgumentsOfCombined(mergeOnHeap(heap, RoutesRef, heap[ObjRef.ref]), req).args,
                  options, req)]

\* the requests and the outcomes of the implementations in flight together
ConcRequests ==
    {[method |-> m, query |-> Obj("ts-rest" :> Arr(g)), headers |-> h,
      body |-> Obj([t |-> Str("x")])] :
        m \in {"GET", "POST"}, g \in SegmentSamples, h \in HeaderSamples}

ConcOutcomes ==
    {[kind |-> "return", status |-> 200, body |-> Obj([id |-> Num("1")])],
     [kind |-> "return", status |-> 204, body |-> Obj([id |-> Str("bad")])],
     [kind |-> "throw", error |-> UnknownError]}

Slots == {1, 2}

\* what outlives a request of the heap the handler left: the objects that
\* were there before it; the objects it allocated are its own
Shared(heap) == SubSeq(heap, 1, Len(ContractHeap))

ConcInit ==
    /\ MatchOff
    /\ fnIn = [fn |-> "serve"]
    /\ fnOut = [heap |-> ContractHeap]
    /\ adapter = "next"
    /\ opts \in OptionsOf("next")
    /\ curReq = [i \in Slots |-> Undefined]
    /\ conn = [i \in Slots |-> Fresh]

\* the handler is called with a request while others may be awaiting
ConcRequest(i) ==
    /\ conn[i].pc = "idle"
    /\ \E r \in ConcRequests :
        /\ curReq' = [curReq EXCEPT ![i] = r]
        /\ conn' = [conn EXCEPT ![i] = ServeBegin(fnOut.heap, opts, r).conn]
        /\ fnOut' = [heap |-> Shared(ServeBegin(fnOut.heap, opts, r).heap)]
    /\ UNCHANGED <<adapter, opts, fnIn, matchVars>>

\* the implementation of request i settles and its handler goes on
ConcSettle(i) ==
    /\ conn[i].pc = "awaiting"
    /\ \E o \in ConcOutcomes : conn' = [conn EXCEPT ![i] = HandlerSettle(conn[i], opts, o)]
    /\ UNCHANGED <<adapter, opts, curReq, fnVars, matchVars>>

\* request i is over
ConcDone(i) ==
    /\ conn[i].pc = "done"
    /\ curReq' = [curReq EXCEPT ![i] = Undefined]
    /\ conn' = [conn EXCEPT ![i] = Fresh]
    /\ UNCHANGED <<adapter, opts, fnVars, matchVars>>

ConcNext ==
    \E i \in Slots :
        \/ ConcRequest(i)
        \/ ConcSettle(i)
        \/ ConcDone(i)

SpecConc == ConcInit /\ [][ConcNext]_vars

\* ------------------------------------------------------------------ SpecQuery

\* Object.fromEntries(Object.entries(req.query).filter(([key]) =>
\*     pathParams[key] === undefined)), {} without a req.query
QueryWithoutParams(query, pathParams) ==
    IF query = Undefined THEN EmptyObj
    ELSE Obj([k \in {x \in DOMAIN query.f : Lookup(pathParams, x) = Undefined} |-> query.f[k]])

\* createSingleRouteHandler once route and urlChunks are there
SingleArguments(appRoute, route, urlChunks, req) ==
    [pathParams |-> getPathParamsFromArray(urlChunks, route),
     query |-> QueryWithoutParams(req.query, getPathParamsFromArray(urlChunks, route)),
     route |-> IF isRouteCorrect(appRoute, urlChunks, req.method) THEN route ELSE Null]

\* the getArgumentsFromRequest of createSingleRouteHandler
createSingleRouteHandler(appRoute, implementationHandler, req) ==
    SingleArguments(appRoute, Spread(appRoute, "implementation" :> implementationHandler),
                    UrlSegments(req.url), req)

\* '/' + segments.join('/')
UrlOf(segs) ==
    [i \in 1..(2 * Len(segs)) |-> IF i % 2 = 1 THEN "/" ELSE segs[i \div 2]]

\* a request as Next hands it to the page of the route `leaf`: the URL has
\* as many segments as the page's path, and the dynamic segments arrive in
\* req.query under their names
SingleRequests(leaf) ==
    {[method |-> m, url |-> UrlOf(g),
      query |-> Obj(Spread(q, getPathParamsFromArray(g, leaf))),
      headers |-> h, body |-> b] :
        m \in Methods,
        g \in {x \in SegmentSamples : Len(x) = Len(Slice1(Split(leaf.path)))},
        q \in QuerySamples, h \in HeaderSamples, b \in BodySamples}

QueryInit ==
    /\ MatchOff
    /\ FnOff
    /\ adapter \in {"next", "single"}
    /\ opts \in OptionsOf("express")
    /\ curReq = Undefined
    /\ conn = Fresh

\* the handler createSingleRouteHandler returns is called with a request
SingleRequest ==
    /\ adapter = "single"
    /\ conn.pc = "idle"
    /\ \E leaf \in LeavesOf(Contract, Implementation) :
       \E r \in SingleRequests(leaf.schema) :
        /\ curReq' = r
        /\ conn' = HandlerBegin(createSingleRouteHandler(leaf.schema, leaf.route, r), opts, r)
    /\ UNCHANGED <<adapter, opts, matchVars, fnVars>>

\* the implementation settles and the handler goes on after its await
SingleSettle ==
    /\ adapter = "single"
    /\ conn.pc = "awaiting"
    /\ \E o \in Outcomes : conn' = HandlerSettle(conn, opts, o)
    /\ UNCHANGED <<adapter, opts, curReq, matchVars, fnVars>>

QueryNext ==
    \/ RequestDone
    \/ NextRequest
    \/ NextSettle
    \/ SingleRequest
    \/ SingleSettle

SpecQuery == QueryInit /\ [][QueryNext]_vars

\* ------------------------------------------------------------------ SpecLive

\* The implementation functions settle: a handler that awaits one goes on.
SpecLive ==
    /\ Spec
    /\ WF_vars(NextSettle)
    /\ WF_vars(ExpressResume)
    /\ WF_vars(NestResume)

\* ------------------------------------------------------------------ C1

\* The template's segments read off the positions of its '/' characters:
\* segment k is what stands between the k-th '/' and the next one (or the end).
SlashPos(p) == {i \in 1..Len(p) : p[i] = "/"}
NthSlash(p, k) == CHOOSE i \in SlashPos(p) : Cardinality({j \in SlashPos(p) : j <= i}) = k
NumSegs(p) == Cardinality(SlashPos(p))
SegOf(p, k) ==
    SubSeq(p, NthSlash(p, k) + 1,
           IF k < NumSegs(p) THEN NthSlash(p, k + 1) - 1 ELSE Len(p))

\* C1: isRouteCorrect returns true if and only if the route's method equals
\* the request method, the template has as many segments as the request, and
\* every template segment that does not start with ':' equals the request
\* segment at the same index.
C1_RouteMatchIff ==
    mOut.run =>
        LET q == UrlSegments(mUrl)
            p == mRoute.path
        IN  mOut.match <=>
                /\ mRoute.method = mMethod
                /\ NumSegs(p) = Len(q)
                /\ \A k \in 1..NumSegs(p) :
                       (SegOf(p, k) = <<>> \/ SegOf(p, k)[1] # ":") => StrOf(SegOf(p, k)) = q[k]

\* GET /a/a is matched by the template /a/:a and a literal segment was compared
C1_Witness ==
    /\ mOut.run /\ mOut.match
    /\ mRoute.path = <<"/", "a", "/", ":", "a">>
    /\ mUrl = <<"/", "a", "/", "a">>
    /\ mMethod = "GET"

\* ------------------------------------------------------------------ the claims' vocabulary

\* a request has been handed to the adapter (and is being handled or is over)
Handling == conn.pc # "idle"
Matched == Handling /\ conn.route # Null

\* the route matches the request as the specification words it (see C1)
ClaimMatch(route, segs, method) ==
    /\ route.method = method
    /\ NumSegs(route.path) = Len(segs)
    /\ \A k \in 1..NumSegs(route.path) :
           (SegOf(route.path, k) = <<>> \/ SegOf(route.path, k)[1] # ":")
               => StrOf(SegOf(route.path, k)) = segs[k]

\* the indices of the template's parameter segments, and the bindings the
\* specification gives them: name after the ':' -> request segment
ParamIdx(p) == {k \in 1..NumSegs(p) : SegOf(p, k) # <<>> /\ SegOf(p, k)[1] = ":"}
ParamName(p, k) == StrOf(SubSeq(SegOf(p, k), 2, Len(SegOf(p, k))))
ClaimParams(p, segs) ==
    [n \in {ParamName(p, k) : k \in ParamIdx(p)} |->
        Str(segs[CHOOSE k \in ParamIdx(p) :
                    /\ ParamName(p, k) = n
                    /\ \A j \in ParamIdx(p) : ParamName(p, j) = n => j <= k])]

\* the data of each category as the adapter reads it off the request
PathParamsData == IF adapter = "next" THEN Obj(ClaimParams(conn.route.path, CatchAllOf(curReq)))
                  ELSE curReq.params
QueryData == IF opts.jsonQuery
             THEN parseJsonQueryObject(Obj(WithoutKey(curReq.query.f, "ts-rest")))
             ELSE curReq.query

\* the data does not satisfy the schema
Fails(data, schema) == isZodObject(schema) /\ ~ZodSafeParse(schema, data).success

CatFails(c) ==
    CASE c = "pathParams" -> Fails(PathParamsData, conn.route.pathParams)
      [] c = "headers" -> Fails(curReq.headers, conn.route.headers)
      [] c = "query" -> Fails(QueryData, conn.route.query)
      [] c = "body" -> Fails(curReq.body, conn.route.body)

CatError(c) ==
    CASE c = "pathParams" -> ZodSafeParse(conn.route.pathParams, PathParamsData).error
      [] c = "headers" -> ZodSafeParse(conn.route.headers, curReq.headers).error
      [] c = "query" -> ZodSafeParse(conn.route.query, QueryData).error
      [] c = "body" -> ZodSafeParse(conn.route.body, curReq.body).error

Categories == <<"pathParams", "headers", "query", "body">>

\* the categories the adapter validates for this route: Express leaves the
\* body of a GET route alone
Checked == IF adapter = "express" /\ conn.route.method = "GET"
           THEN {"pathParams", "headers", "query"}
           ELSE {"pathParams", "headers", "query", "body"}

Failing == {c \in Checked : CatFails(c)}

NothingDelivered == conn.handled = <<>> /\ conn.thrown = <<>>

\* ------------------------------------------------------------------ C2

\* C2: when no leaf of the contract matches the request on method and path,
\* the Next handler answers 404 without a body, runs no request validation,
\* invokes no implementation and calls no error handler.
C2_RouteNotFound ==
    (adapter = "next" /\ Handling
        /\ \A leaf \in LeavesOf(Contract, Implementation) :
               ~ClaimMatch(leaf.schema, CatchAllOf(curReq), curReq.method))
    => /\ conn.pc = "done"
       /\ conn.res = [NoResponse EXCEPT !.status = 404, !.how = "end"]
       /\ conn.validated = {}
       /\ conn.implCalls = 0
       /\ NothingDelivered

\* POST /t: the URL is a route's, the method is not
C2_Witness ==
    /\ adapter = "next" /\ conn.pc = "done"
    /\ curReq.method = "POST" /\ CatchAllOf(curReq) = <<"t">>
    /\ conn.res.status = 404

\* ------------------------------------------------------------------ C3

NoTransform(schema) ==
    ~isZodObject(schema)
    \/ \A k \in DOMAIN schema.shape : schema.shape[k] \in {"string", "digits"}

\* C3: for a matched route the bindings map every ':name' template segment to
\* the request segment at its index, as a raw string, and nothing else; path
\* parameter validation is run on them and, when no pathParams schema
\* transforms them, the implementation receives them as params.
C3_PathParams ==
    (adapter = "next" /\ Matched) =>
        /\ conn.args.pathParams = ClaimParams(conn.route.path, CatchAllOf(curReq))
        /\ conn.results.pathParams =
               checkStandardSchema(Obj(ClaimParams(conn.route.path, CatchAllOf(curReq))),
                                   conn.route.pathParams, TRUE)
        /\ (conn.implCalls > 0 /\ NoTransform(conn.route.pathParams))
               => conn.implArgs.params = Obj(ClaimParams(conn.route.path, CatchAllOf(curReq)))

\* POST /t/3 is served by /:a/:b with a = "t" and b = "3"
C3_Witness ==
    /\ adapter = "next" /\ Matched /\ conn.implCalls = 1
    /\ conn.route.path = <<"/", ":", "a", "/", ":", "b">>
    /\ conn.implArgs.params = Obj([a |-> Str("t"), b |-> Str("3")])

\* ------------------------------------------------------------------ C4

\* C4: with throw mode off, a matched request of which a validation fails is
\* answered 400, its implementation is never invoked and no error reaches the
\* error handler or the caller; the implementation is invoked only after
\* every validation of the route has run and succeeded.
C4_ValidationGate ==
    (adapter \in {"next", "express"} /\ Matched /\ ~opts.throwRequestValidation) =>
        /\ Failing # {} =>
              /\ conn.pc = "done"
              /\ conn.res.status = 400
              /\ conn.implCalls = 0
              /\ NothingDelivered
        /\ conn.implCalls > 0 => (Failing = {} /\ conn.validated = Checked)

\* a POST with an empty body to a route with a required body field: 400 with
\* the one issue of that field
C4_Witness ==
    /\ adapter = "next" /\ Matched /\ ~opts.throwRequestValidation
    /\ curReq.method = "POST" /\ curReq.body = EmptyObj
    /\ Failing = {"body"}
    /\ conn.res.status = 400
    /\ conn.res.body = ZodError({Issue(<<"t">>, "invalid_type")})

\* ------------------------------------------------------------------ C5

\* C5: in every adapter a request whose headers do not satisfy the matched
\* route's headers schema is rejected before the implementation or controller
\* method runs.
C5_HeadersEnforced ==
    (Matched /\ Fails(curReq.headers, conn.route.headers)) => conn.implCalls = 0

\* ------------------------------------------------------------------ C6

FirstFailing == Categories[CHOOSE i \in 1..4 :
                    /\ Categories[i] \in Failing
                    /\ \A j \in 1..(i - 1) : Categories[j] \notin Failing]

ErrorOrNull(c) == IF CatFails(c) THEN CatError(c) ELSE Null

\* C7: with throwRequestValidation on, a request of which a validation fails
\* raises exactly one RequestValidationError, each field holding that
\* category's error or null; nothing is written, the implementation is not
\* invoked, and the error goes to the errorHandler or, without one, to the caller.
C7_ThrowMode ==
    (adapter = "next" /\ Matched /\ opts.throwRequestValidation /\ Failing # {}) =>
        /\ conn.pc = "done"
        /\ conn.res = NoResponse
        /\ conn.implCalls = 0
        /\ conn.handled \o conn.thrown =
               <<RequestValidationError(ErrorOrNull("pathParams"), ErrorOrNull("headers"),
                                        ErrorOrNull("query"), ErrorOrNull("body"))>>
        /\ (opts.errorHandler => conn.thrown = <<>>)
        /\ (~opts.errorHandler => conn.handled = <<>>)

\* only the headers fail and an error handler is configured
C7_Witness ==
    /\ adapter = "next" /\ Matched /\ opts.throwRequestValidation /\ opts.errorHandler
    /\ Failing = {"headers"}
    /\ Len(conn.handled) = 1
    /\ conn.handled[1].headers = ZodError({Issue(<<"xk">>, "invalid_type")})
    /\ conn.handled[1].body = Null

\* ------------------------------------------------------------------ C8

\* C8: for a matched GET route the request body is never validated against a
\* body schema and never causes a 400, in every adapter.
C8_NoBodyCheckOnGet ==
    (Matched /\ conn.route.method = "GET"
        /\ ~CatFails("pathParams") /\ ~CatFails("headers") /\ ~CatFails("query"))
    => /\ conn.res.status # 400
       /\ NothingDelivered

\* ------------------------------------------------------------------ C9

Settled == adapter = "next" /\ conn.pc = "done" /\ conn.outcome # Undefined

IsSignal(outcome) == outcome.kind = "throw" /\ outcome.error.name = "TsRestResponseError"

\* what the registered entry asks the body of a response with this status to be
EntrySchema(status) == ResponseSchemaOf(Lookup(conn.route.responses, status))

\* C9: a TsRestResponseError thrown by the implementation is answered as the
\* result {status: e.statusCode, body: e.body}: it passes the response
\* validation (when enabled) and the response mapping, and it is neither
\* rethrown nor given to the errorHandler.
C9_ResponseSignal ==
    (Settled /\ IsSignal(conn.outcome)) =>
        LET e == conn.outcome.error
            entry == Lookup(conn.route.responses, e.statusCode)
            checks == opts.responseValidation /\ isZodObject(EntrySchema(e.statusCode))
        IN  /\ e \notin {conn.handled[i] : i \in DOMAIN conn.handled}
            /\ e \notin {conn.thrown[i] : i \in DOMAIN conn.thrown}
            /\ IF checks /\ ~ZodSafeParse(EntrySchema(e.statusCode), e.body).success
               THEN /\ conn.res = NoResponse
                    /\ conn.handled \o conn.thrown =
                           <<ResponseValidationError(
                                 ZodSafeParse(EntrySchema(e.statusCode), e.body).error)>>
               ELSE /\ NothingDelivered
                    /\ conn.res.status = e.statusCode
                    /\ conn.res.how = (IF isAppRouteNoBody(entry) THEN "end"
                                       ELSE IF isAppRouteOtherResponse(entry) THEN "send"
                                       ELSE "json")
                    /\ conn.res.body =
                           (IF isAppRouteNoBody(entry) THEN Undefined
                            ELSE IF checks THEN ZodSafeParse(EntrySchema(e.statusCode), e.body).data
                            ELSE e.body)

\* the implementation throws TsRestResponseError(404, body): 404 and the body are sent
C9_Witness ==
    /\ Settled /\ IsSignal(conn.outcome)
    /\ conn.outcome.error.statusCode = 404
    /\ conn.res.status = 404 /\ conn.res.how = "json"
    /\ conn.res.body = conn.outcome.error.body

\* ------------------------------------------------------------------ C10

\* C10: an error of the implementation that is not the response signal is
\* never swallowed: no response is written by the adapter and the error is
\* delivered exactly once, to the error handler (Next errorHandler, Express
\* next) when there is one, else rethrown.
C10_UnknownErrors ==
    /\ (Settled /\ conn.outcome.kind = "throw" /\ ~IsSignal(conn.outcome)) =>
           /\ conn.res = NoResponse
           /\ (opts.errorHandler =>
                   conn.handled = <<conn.outcome.error>> /\ conn.thrown = <<>>)
           /\ (~opts.errorHandler =>
                   conn.thrown = <<conn.outcome.error>> /\ conn.handled = <<>>)
    /\ (adapter = "express" /\ conn.pc = "done" /\ conn.outcome # Undefined
            /\ conn.outcome.kind = "throw") =>
           /\ conn.res = NoResponse
           /\ conn.handled = <<conn.outcome.error>>
           /\ conn.thrown = <<>>

\* no error handler is configured: the error is rethrown to the caller
C10_Witness ==
    /\ Settled /\ ~opts.errorHandler
    /\ conn.outcome = [kind |-> "throw", error |-> UnknownError]
    /\ conn.thrown = <<UnknownError>>

\* ------------------------------------------------------------------ C11

\* the implementation of the request returned {status, body} and the adapter is done with it
Returned == conn.pc = "done" /\ conn.outcome # Undefined /\ conn.outcome.kind = "return"

\* the entry registered for the status the implementation returned
ReturnedEntry == Lookup(conn.route.responses, conn.outcome.status)

\* C11: with responseValidation on and a schema registered for the returned
\* status, the body written is the schema's validated output (undeclared
\* fields stripped, defaults applied); with responseValidation off the body
\* written is the implementation's raw body.
C11_ResponseNormalized ==
    (Returned /\ ~isAppRouteNoBody(ReturnedEntry)) =>
        /\ (opts.responseValidation /\ isZodObject(ReturnedEntry)
               /\ ZodSafeParse(ReturnedEntry, conn.outcome.body).success) =>
               /\ conn.res.status = conn.outcome.status
               /\ conn.res.body = ZodSafeParse(ReturnedEntry, conn.outcome.body).data
        /\ ~opts.responseValidation =>
               /\ conn.res.status = conn.outcome.status
               /\ conn.res.body = conn.outcome.body

\* {id: 1, x: 'y'} is returned for a status whose schema declares id and a
\* defaulted d: {id: 1, d: 'hello world'} is written
C11_Witness ==
    /\ Returned /\ adapter = "next" /\ opts.responseValidation
    /\ conn.outcome.status = 200
    /\ conn.outcome.body = Obj([id |-> Num("1"), x |-> Str("y")])
    /\ conn.res.body = Obj([id |-> Num("1"), d |-> Str("hello world")])

\* ------------------------------------------------------------------ C12

\* the returned body does not satisfy the schema registered for its status
ReturnedInvalid ==
    /\ Returned /\ opts.responseValidation
    /\ isZodObject(ReturnedEntry)
    /\ ~ZodSafeParse(ReturnedEntry, conn.outcome.body).success

\* C12: with responseValidation on, a body that fails the schema of its status
\* is never written; the failure is raised as a server error (to the error
\* handler or the caller in Next, to next in Express, as an
\* InternalServerErrorException in Nest) and no status is set on the response.
C12_ResponseInvalid ==
    ReturnedInvalid =>
        /\ conn.res = NoResponse
        /\ adapter = "next" =>
               /\ conn.handled \o conn.thrown =
                      <<ResponseValidationError(
                            ZodSafeParse(ReturnedEntry, conn.outcome.body).error)>>
               /\ (opts.errorHandler <=> conn.thrown = <<>>)
        /\ adapter = "express" =>
               /\ conn.handled = <<ResponseValidationError(
                                       ZodSafeParse(ReturnedEntry, conn.outcome.body).error)>>
               /\ conn.thrown = <<>>
        /\ adapter = "nest" =>
               /\ conn.handled = <<>>
               /\ conn.thrown = <<InternalServerErrorException(
                                      ZodSafeParse(ReturnedEntry, conn.outcome.body).error)>>

\* the Nest controller returns {id: 'bad'} for status 200
C12_Witness ==
    /\ ReturnedInvalid /\ adapter = "nest"
    /\ conn.outcome.status = 200
    /\ conn.outcome.body = Obj([id |-> Str("bad")])
    /\ conn.res.status = 0
    /\ Len(conn.thrown) = 1 /\ conn.thrown[1].name = "InternalServerErrorException"

\* ------------------------------------------------------------------ C13

\* C13: a status the route's responses do not declare is answered with that
\* status and the implementation's body unchanged, with responseValidation on
\* or off and with strictStatusCodes set or not.
C13_UndeclaredStatus ==
    (Returned /\ conn.outcome.status \notin DOMAIN conn.route.responses) =>
        /\ conn.res.status = conn.outcome.status
        /\ conn.res.body = conn.outcome.body
        /\ NothingDelivered

\* 404 from a route that sets strictStatusCodes, with responseValidation on
C13_Witness ==
    /\ Returned /\ adapter = "next" /\ opts.responseValidation
    /\ "strictStatusCodes" \in DOMAIN conn.route /\ conn.route.strictStatusCodes
    /\ conn.outcome.status = 404
    /\ conn.res.status = 404 /\ conn.res.how = "json"
    /\ conn.res.body = conn.outcome.body

\* ------------------------------------------------------------------ C14

\* checkZodSchema has been called with the arguments in fnIn
Checked14 == fnOut # NotRun /\ fnIn.fn = "checkZodSchema"

\* C14: when the schema argument is absent or no validation schema
\* (undefined, null, '', a plain object), checkZodSchema answers success with
\* the data it was given, whatever passThroughExtraKeys is.
C14_NoSchemaPassThrough ==
    (Checked14 /\ "t" \in DOMAIN fnIn.schema) =>
        fnOut.result = [success |-> TRUE, data |-> fnIn.data]

\* the plain object {a: '123'} as schema, passThroughExtraKeys on
C14_Witness ==
    /\ Checked14
    /\ fnIn.schema = Obj([a |-> Str("123")])
    /\ fnIn.passThroughExtraKeys
    /\ fnIn.data = Obj([a |-> Num("1")])
    /\ fnOut.result = [success |-> TRUE, data |-> Obj([a |-> Num("1")])]

\* ------------------------------------------------------------------ C15

\* the validation of the call succeeded
Validated15 ==
    /\ Checked14
    /\ "safeParse" \in DOMAIN fnIn.schema
    /\ ZodSafeParse(fnIn.schema, fnIn.data).success

\* C15: on success, with passThroughExtraKeys on and a plain key-value object
\* as data, the result holds every key of the input and every validated key,
\* the validated value winning; with passThroughExtraKeys off, and for data
\* that is no plain key-value object, the result is the validated value alone.
C15_PassThroughExtraKeys ==
    Validated15 =>
        /\ fnOut.result.success
        /\ IF fnIn.passThroughExtraKeys /\ IsObj(fnIn.data)
           THEN /\ IsObj(fnOut.result.data)
                /\ Keys(fnOut.result.data) =
                       Keys(fnIn.data) \cup Keys(ZodSafeParse(fnIn.schema, fnIn.data).data)
                /\ \A k \in Keys(fnOut.result.data) :
                       fnOut.result.data.f[k] =
                           (IF k \in Keys(ZodSafeParse(fnIn.schema, fnIn.data).data)
                            THEN ZodSafeParse(fnIn.schema, fnIn.data).data.f[k]
                            ELSE fnIn.data.f[k])
           ELSE fnOut.result.data = ZodSafeParse(fnIn.schema, fnIn.data).data

\* ------------------------------------------------------------------ C16

\* c.router has been called with the arguments in fnIn
Built16 == fnOut # NotRun /\ fnIn.fn = "router"

\* the schemas that went in: the options' baseHeaders (A) and the headers of route r (B)
BaseSchema == IF fnIn.options = Undefined THEN Undefined ELSE fnIn.heap[1].baseHeaders
RouteSchema == fnIn.heap[2].headers
BothPresent == "safeParse" \in DOMAIN BaseSchema /\ "safeParse" \in DOMAIN RouteSchema

\* the headers of route r in the tree the first call returned
MergedHeaders == Deref(fnOut.heap, fnOut.trees[1]).entries[1].value.headers

\* the validation of the headers in fnIn against the merged schema
MergedParse == ZodSafeParse(MergedHeaders, fnIn.data)

\* C16: with both schemas present the merged schema has the union of their
\* fields, each field that both declare with the route-level (B's)
\* validator, and it requires every field whose validator is a required one.
C16_MergeFields ==
    (Built16 /\ BothPresent) =>
        /\ DOMAIN MergedHeaders.shape = (DOMAIN BaseSchema.shape) \cup (DOMAIN RouteSchema.shape)
        /\ \A k \in DOMAIN MergedHeaders.shape :
               /\ MergedHeaders.shape[k] =
                      (IF k \in DOMAIN RouteSchema.shape
                       THEN RouteSchema.shape[k] ELSE BaseSchema.shape[k])
               /\ (MergedHeaders.shape[k] = "string" /\ k \notin Keys(fnIn.data)) =>
                      /\ ~MergedParse.success
                      /\ Issue(<<k>>, "invalid_type") \in MergedParse.error.issues

\* base foo: required string, route foo: optional string; headers without foo pass
C16_Witness ==
    /\ Built16 /\ BothPresent
    /\ BaseSchema.shape = [foo |-> "string"]
    /\ RouteSchema.shape = [foo |-> "optString"]
    /\ MergedHeaders.shape = [foo |-> "optString"]
    /\ fnIn.data = EmptyObj
    /\ MergedParse.success

\* ------------------------------------------------------------------ C17

\* the schema rejects fields it does not declare
RejectsUnknown(schema) == schema.unknownKeys = "strict"

\* C17 as stated: the merged schema rejects unknown fields only if both
\* inputs reject them; if either accepts them the merged schema accepts them.
C17_StrictOnlyIfBoth ==
    (Built16 /\ BothPresent) =>
        (RejectsUnknown(MergedHeaders) <=>
            (RejectsUnknown(BaseSchema) /\ RejectsUnknown(RouteSchema)))

\* C17 amended: the merged schema rejects unknown fields exactly when the
\* route-level (second) schema rejects them; the base schema's policy for
\* unknown fields has no effect on the merged schema.
C17_PolicyOfRoute ==
    (Built16 /\ BothPresent) =>
        /\ MergedHeaders.unknownKeys = RouteSchema.unknownKeys
        /\ RejectsUnknown(MergedHeaders) <=> RejectsUnknown(RouteSchema)
        /\ (Keys(fnIn.data) \ DOMAIN MergedHeaders.shape # {} /\ RejectsUnknown(RouteSchema))
               => ~MergedParse.success

\* a base that accepts unknown fields and a strict route: the merged schema rejects baz
C17_Witness ==
    /\ Built16 /\ BothPresent
    /\ ~RejectsUnknown(BaseSchema) /\ RejectsUnknown(RouteSchema)
    /\ RejectsUnknown(MergedHeaders)
    /\ "baz" \in Keys(fnIn.data)
    /\ ~MergedParse.success

\* ------------------------------------------------------------------ C18

FooBarBaz == Obj([foo |-> Str("foo"), bar |-> Str("bar"), baz |-> Str("baz")])

\* the second zodMerge test: strict base {foo}, non-strict route {bar}, and {foo, bar, baz}
StrictBaseCase ==
    /\ Built16
    /\ BaseSchema = ZodObject([foo |-> "string"], "strict")
    /\ RouteSchema = ZodObject([bar |-> "string"], "strip")
    /\ fnIn.data = FooBarBaz

\* C18 as stated: merging a strict base {foo} with a non-strict route {bar}
\* and validating {foo, bar, baz} rejects.
C18_StrictBaseRejects == StrictBaseCase => ~MergedParse.success

\* C18 amended: merging a strict base {foo} with a non-strict route {bar} and
\* validating {foo, bar, baz} succeeds and returns exactly {foo, bar}.
C18_StrictBaseAccepts ==
    StrictBaseCase =>
        /\ MergedParse.success
        /\ MergedParse.data = Obj([foo |-> Str("foo"), bar |-> Str("bar")])

C18_Witness == StrictBaseCase /\ MergedParse.success /\ "baz" \notin Keys(MergedParse.data)

\* ------------------------------------------------------------------ C19

\* C19: for a strict or non-strict base {foo} and a strict or non-strict
\* route {bar}, validating {foo, bar, baz} against the merged schema rejects,
\* naming baz, exactly when the route schema is strict, and otherwise
\* succeeds with exactly {foo, bar}.
C19_MergeTests ==
    \A pa \in {"strip", "strict"}, pb \in {"strip", "strict"} :
        (Built16 /\ BaseSchema = ZodObject([foo |-> "string"], pa)
                 /\ RouteSchema = ZodObject([bar |-> "string"], pb)
                 /\ fnIn.data = FooBarBaz) =>
            IF pb = "strict"
            THEN /\ ~MergedParse.success
                 /\ MergedParse.error.issues = {UnrecognizedKeys({"baz"})}
            ELSE /\ MergedParse.success
                 /\ MergedParse.data = Obj([foo |-> Str("foo"), bar |-> Str("bar")])

\* the third zodMerge test: non-strict base, strict route, baz named in the error
C19_Witness ==
    /\ Built16
    /\ BaseSchema = ZodObject([foo |-> "string"], "strip")
    /\ RouteSchema = ZodObject([bar |-> "string"], "strict")
    /\ fnIn.data = FooBarBaz
    /\ ~MergedParse.success
    /\ \E issue \in MergedParse.error.issues : "keys" \in DOMAIN issue /\ "baz" \in issue.keys

\* ------------------------------------------------------------------ C20

RECURSIVE NodesOf(_, _)
\* the addresses of the objects of a tree: routers and routes
NodesOf(heap, r) ==
    IF isAppRoute(heap[r.ref]) THEN {r.ref}
    ELSE {r.ref} \cup UNION {NodesOf(heap, heap[r.ref].entries[i].value) :
                                i \in 1..Len(heap[r.ref].entries)}

\* C20: c.router leaves the tree it is given, every route object of it and
\* the options as they were, returns a tree of new objects, and returns
\* structurally equal trees when called twice with the same arguments.
C20_BuilderPure ==
    Built16 =>
        /\ \A a \in 1..Len(fnIn.heap) : fnOut.heap[a] = fnIn.heap[a]
        /\ \A i \in 1..Len(fnOut.trees) :
               NodesOf(fnOut.heap, fnOut.trees[i]) \cap (1..Len(fnIn.heap)) = {}
        /\ Len(fnOut.trees) = 2 =>
               /\ Deref(fnOut.heap, fnOut.trees[1]) = Deref(fnOut.heap, fnOut.trees[2])
               /\ NodesOf(fnOut.heap, fnOut.trees[1]) \cap NodesOf(fnOut.heap, fnOut.trees[2]) = {}

\* two calls with base and route headers both present: the route of the
\* result carries the merged headers, the route handed in still its own
C20_Witness ==
    /\ Built16 /\ BothPresent
    /\ Len(fnOut.trees) = 2
    /\ MergedHeaders # RouteSchema
    /\ fnOut.heap[2].headers = RouteSchema
    /\ Deref(fnOut.heap, fnIn.endpoints) = Deref(fnIn.heap, fnIn.endpoints)

\* ------------------------------------------------------------------ C21

\* the inner c.router call has returned; the outer one too
Composed == fnOut # NotRun /\ fnIn.fn = "compose"
ComposedTwice == Composed /\ Len(fnOut.trees) = 2

\* the options each call was handed, as written
InnerGiven == IF fnIn.innerOptions = Undefined THEN EmptyFn ELSE fnIn.heap[1]
OuterGiven == fnIn.heap[2]

\* the route getPost as written, in the inner contract, and in the outer one;
\* the route top as written and in the outer contract
GetPostWritten == fnIn.heap[3]
TopWritten == fnIn.heap[4]
GetPostInner == Deref(fnOut.heap, fnOut.trees[1]).entries[1].value
GetPostOuter == Deref(fnOut.heap, fnOut.trees[2]).entries[1].value.entries[1].value
TopOuter == Deref(fnOut.heap, fnOut.trees[2]).entries[2].value

\* the prefix an options object contributes
PrefixOf(options) == IF "pathPrefix" \in DOMAIN options THEN options.pathPrefix ELSE <<>>

\* C21: every leaf's path is the pathPrefix of each enclosing c.router call,
\* outermost first, followed by the leaf's own path, each prefix once; the
\* inner contract on its own keeps the inner prefix only.
C21_PathPrefix ==
    /\ Composed =>
           GetPostInner.path = PrefixOf(InnerGiven) \o GetPostWritten.path
    /\ ComposedTwice =>
           /\ GetPostOuter.path =
                  PrefixOf(OuterGiven) \o PrefixOf(InnerGiven) \o GetPostWritten.path
           /\ TopOuter.path = PrefixOf(OuterGiven) \o TopWritten.path

\* ------------------------------------------------------------------ C22

\* merging with an absent side yields the other side, two absent sides absent
ClaimMerge(a, b) ==
    IF a = Undefined THEN b ELSE IF b = Undefined THEN a ELSE ZodMergeObjects(a, b)

BaseOf(options) == Lookup(options, "baseHeaders")
HeadersOf(route) == Lookup(route, "headers")

\* the router nodes of a tree
RouterNodes(heap, r) == {a \in NodesOf(heap, r) : ~isAppRoute(heap[a])}

\* the keys of a router node, in order
KeysAt(heap, r) == [i \in 1..Len(heap[r.ref].entries) |-> heap[r.ref].entries[i].key]

\* C22: after c.router(tree, {baseHeaders}) every leaf at any depth, the
\* leaves of an already built sub-contract included, has the headers
\* merge(baseHeaders, the leaf's headers before the call); no leaf is
\* missing from the result and no router node has a headers attribute.
C22_BaseHeadersReach ==
    /\ Composed =>
           /\ HeadersOf(GetPostInner) = ClaimMerge(BaseOf(InnerGiven), HeadersOf(GetPostWritten))
           /\ KeysAt(fnOut.heap, fnOut.trees[1]) = <<"getPost">>
           /\ \A a \in RouterNodes(fnOut.heap, fnOut.trees[1]) :
                  "headers" \notin DOMAIN fnOut.heap[a]
    /\ ComposedTwice =>
           /\ HeadersOf(GetPostOuter) = ClaimMerge(BaseOf(OuterGiven), HeadersOf(GetPostInner))
           /\ HeadersOf(TopOuter) = ClaimMerge(BaseOf(OuterGiven), HeadersOf(TopWritten))
           /\ KeysAt(fnOut.heap, fnOut.trees[2]) = <<"posts", "top">>
           /\ KeysAt(fnOut.heap, fnOut.heap[fnOut.trees[2].ref].entries[1].value) = <<"getPost">>
           /\ \A a \in RouterNodes(fnOut.heap, fnOut.trees[2]) :
                  "headers" \notin DOMAIN fnOut.heap[a]

\* inner and outer base headers and the route's own headers all present:
\* the leaf of the embedded contract carries all three merged, the leaf
\* without headers of its own carries the outer base headers
C22_Witness ==
    /\ ComposedTwice
    /\ BaseOf(InnerGiven) # Undefined /\ BaseOf(OuterGiven) # Undefined
    /\ HeadersOf(GetPostWritten) # Undefined
    /\ HeadersOf(GetPostOuter) = ZodObject([foo |-> "optString", bar |-> "string"], "passthrough")
    /\ HeadersOf(GetPostInner) = ZodObject([foo |-> "optString"], "passthrough")
    /\ HeadersOf(TopOuter) = BaseOf(OuterGiven)

\* ------------------------------------------------------------------ C23

StrictOf(obj) == Lookup(obj, "strictStatusCodes")

\* the route's own value when it sets one, the router-level value otherwise
ClaimStrict(own, routerLevel) == IF own # Undefined THEN own ELSE routerLevel

\* C23: after c.router(tree, {strictStatusCodes: X}) every leaf's
\* strictStatusCodes is the leaf's own value when it has one (a value an
\* inner c.router call resolved included) and X otherwise.
C23_StrictResolution ==
    /\ Composed =>
           StrictOf(GetPostInner) = ClaimStrict(StrictOf(GetPostWritten), StrictOf(InnerGiven))
    /\ ComposedTwice =>
           /\ StrictOf(GetPostOuter) = ClaimStrict(StrictOf(GetPostInner), StrictOf(OuterGiven))
           /\ StrictOf(TopOuter) = ClaimStrict(StrictOf(TopWritten), StrictOf(OuterGiven))

\* ------------------------------------------------------------------ C24

\* the commonResponses of an options object, none when it has none
CommonOf(options) ==
    IF "commonResponses" \in DOMAIN options THEN options.commonResponses ELSE EmptyFn

\* C24: after c.router(tree, {commonResponses}) every leaf's responses hold
\* every commonResponses entry and every entry of the leaf, the leaf's own
\* for a status in both; an entry an inner contract's commonResponses
\* contributed is kept over the outer contract's for the same status.
C24_CommonResponses ==
    /\ Composed =>
           GetPostInner.responses = Spread(CommonOf(InnerGiven), GetPostWritten.responses)
    /\ ComposedTwice =>
           /\ GetPostOuter.responses = Spread(CommonOf(OuterGiven), GetPostInner.responses)
           /\ TopOuter.responses = Spread(CommonOf(OuterGiven), TopWritten.responses)

\* ------------------------------------------------------------------ C25

\* request r handled alone, on the contract as it was built, up to the
\* call of its implementation
Alone(r) == HandlerBegin(createNextRouter(Contract, Implementation, r), opts, r)

\* requests are in flight together
Serving == fnIn.fn = "serve"

\* C25: with requests interleaved at the await of their implementations,
\* each request's matched route, validation results and response are what
\* they would be were it handled alone; handling requests leaves the
\* contract tree and the implementation tree as they were.
C25_RequestIsolation ==
    Serving =>
        /\ fnOut.heap = ContractHeap
        /\ \A i \in Slots :
               \/ conn[i].pc = "idle" /\ conn[i] = Fresh
               \/ conn[i].pc = "awaiting" /\ conn[i] = Alone(curReq[i])
               \/ /\ conn[i].pc = "done"
                  /\ \/ conn[i] = Alone(curReq[i])
                     \/ /\ Alone(curReq[i]).pc = "awaiting"
                        /\ conn[i] = HandlerSettle(Alone(curReq[i]), opts, conn[i].outcome)

\* two requests for different routes in flight at once, one answered
\* while the other still awaits its implementation
C25_Witness ==
    /\ Serving
    /\ conn[1].pc = "awaiting" /\ conn[1].route.path = <<"/", "t">>
    /\ conn[2].pc = "done" /\ conn[2].implCalls = 1
    /\ conn[2].route.path = <<"/", "p", "/", ":", "i", "d">>
    /\ conn[2].res.status = 200

\* ------------------------------------------------------------------ C26

RECURSIVE LeafSeq(_, _, _)
\* the leaves of the contract with their implementations, depth-first in
\* the order the keys are defined
LeafSeq(router, implementation, i) ==
    IF i > Len(router.entries) THEN <<>>
    ELSE (IF isAppRoute(router.entries[i].value)
          THEN <<[schema |-> router.entries[i].value,
                  route |-> implementation[router.entries[i].key]]>>
          ELSE LeafSeq(router.entries[i].value, implementation[router.entries[i].key], 1))
         \o LeafSeq(router, implementation, i + 1)

Leaves26 == LeafSeq(Contract, Implementation, 1)

\* the places in that order of the leaves that match the request
Matching26 == {k \in 1..Len(Leaves26) :
                  ClaimMatch(Leaves26[k].schema, CatchAllOf(curReq), curReq.method)}

\* the earliest of them
First26 == CHOOSE k \in Matching26 : \A j \in Matching26 : k <= j

\* C26: the Next router dispatches to the first leaf, depth-first in key
\* order, that matches the request, and to none exactly when no leaf
\* matches; a matching leaf defined later is never invoked.
C26_FirstMatchWins ==
    (adapter = "next" /\ Handling) =>
        /\ (conn.route = Null) <=> (Matching26 = {})
        /\ Matching26 # {} =>
               /\ conn.route = Spread(Leaves26[First26].schema,
                                      "implementation" :> Leaves26[First26].route)
               /\ conn.implCalls <= 1
               /\ conn.implCalls = 1 => conn.implArgs.fn = Leaves26[First26].route.fn

\* POST /p/3 matches /p/:id and, defined after it, /:a/:b: the first was invoked
C26_Witness ==
    /\ adapter = "next" /\ Handling
    /\ Cardinality(Matching26) = 2
    /\ conn.implCalls = 1
    /\ conn.implArgs.fn = "posts.create"
    /\ Leaves26[4].route.fn = "posts.any" /\ 4 \in Matching26

\* ------------------------------------------------------------------ C27

\* the categories up to and including c, in the order they are answered for
UpTo(c) == {Categories[j] : j \in 1..(CHOOSE i \in 1..4 : Categories[i] = c)}

\* C27: with throw mode off and several categories failing, the Next and
\* Express handlers answer 400 with the error of the first failing category
\* (path params, headers, query, body); no issue of a later failing category
\* is in the body, no implementation runs, and Express does not go on to
\* the categories after the first failing one.
C27_FirstCategoryDecides ==
    (adapter \in {"next", "express"} /\ Matched /\ ~opts.throwRequestValidation
        /\ Cardinality(Failing) >= 2)
    => /\ conn.pc = "done"
       /\ conn.res.status = 400
       /\ conn.res.body.issues = CatError(FirstFailing).issues
       /\ \A c \in Failing \ {FirstFailing} :
              CatError(c).issues \cap conn.res.body.issues = {}
       /\ conn.implCalls = 0
       /\ NothingDelivered
       /\ adapter = "express" => conn.validated = UpTo(FirstFailing)

\* Express, POST /p/:id with headers, query and body all failing: the
\* headers' error is the answer and the query was never looked at
C27_Witness ==
    /\ adapter = "express" /\ Matched /\ opts.jsonQuery
    /\ Failing = {"headers", "query", "body"}
    /\ conn.res.status = 400
    /\ conn.res.body = CatError("headers")
    /\ conn.validated = {"pathParams", "headers"}

\* ------------------------------------------------------------------ C28

\* the {status, body} the implementation gave: returned, or thrown as a
\* TsRestResponseError
Result28 ==
    IF conn.outcome.kind = "return"
    THEN [status |-> conn.outcome.status, body |-> conn.outcome.body]
    ELSE [status |-> conn.outcome.error.statusCode, body |-> conn.outcome.error.body]

\* the Next handler has written the response for that result
Written28 ==
    /\ Settled /\ NothingDelivered
    /\ conn.outcome.kind = "return" \/ IsSignal(conn.outcome)

Entry28 == Lookup(conn.route.responses, Result28.status)

\* C28: the entry registered for the implementation's status selects how
\* the response is written: a 'no body' entry ends it with the status and
\* no body, whatever body the implementation gave; an 'other response'
\* entry sets the content type to the entry's and sends the body as it is;
\* any other entry, or none, sends the body as JSON with no content type
\* set by the handler; the status written is the implementation's.
C28_ResponseMapping ==
    Written28 =>
        /\ conn.res.status = Result28.status
        /\ isAppRouteNoBody(Entry28) =>
               conn.res = [NoResponse EXCEPT !.status = Result28.status, !.how = "end"]
        /\ isAppRouteOtherResponse(Entry28) =>
               conn.res = [status |-> Result28.status, how |-> "send",
                           body |-> Result28.body, contentType |-> Entry28.contentType]
        /\ (~isAppRouteNoBody(Entry28) /\ ~isAppRouteOtherResponse(Entry28)) =>
               /\ conn.res.how = "json"
               /\ conn.res.contentType = ""
               /\ ~opts.responseValidation => conn.res.body = Result28.body

\* 204 with a body returned for a 'no body' entry: nothing but the status is written
C28_Witness ==
    /\ Written28
    /\ conn.outcome.kind = "return" /\ conn.outcome.status = 204
    /\ conn.outcome.body = Obj([id |-> Num("1")])
    /\ isAppRouteNoBody(Entry28)
    /\ conn.res = [NoResponse EXCEPT !.status = 204, !.how = "end"]

\* ------------------------------------------------------------------ C29

\* the keys of req.query that route the request: the catch-all segments
\* and, for the single-route handler, the names of the path parameters
RoutingKeys ==
    {"ts-rest"} \cup
    (IF adapter = "single"
     THEN {ParamName(conn.route.path, k) : k \in ParamIdx(conn.route.path)} ELSE {})

\* the query of the request without them, read as JSON when jsonQuery is on
PlainQuery == Obj([k \in Keys(curReq.query) \ RoutingKeys |-> curReq.query.f[k]])
ClaimQuery == IF opts.jsonQuery THEN parseJsonQueryObject(PlainQuery) ELSE PlainQuery

\* C29: in the handlers of createNextRouter and createSingleRouteHandler the
\* query that is validated is the request's query without the routing
\* keys, with jsonQuery on and off alike, and the query handed to the
\* implementation is its validated value and holds no routing key.
C29_QueryExcludesRoutingKeys ==
    (adapter \in {"next", "single"} /\ Matched) =>
        /\ conn.results.query = checkStandardSchema(ClaimQuery, conn.route.query, FALSE)
        /\ conn.implCalls = 1 =>
               /\ conn.implArgs.query = conn.results.query.value
               /\ Keys(conn.implArgs.query) \cap RoutingKeys = {}

\* ------------------------------------------------------------------ C30

\* the ways a request ends
Written == conn.res.how # "none"
HandedOver == conn.handled # <<>>
Rethrown == conn.thrown # <<>>

NotFoundWritten == Written /\ conn.route = Null /\ conn.res.status = 404 /\ conn.implCalls = 0
BadRequestWritten == Written /\ conn.route # Null /\ conn.res.status = 400 /\ conn.implCalls = 0
MappedWritten == Written /\ conn.route # Null /\ conn.implCalls = 1 /\ conn.outcome # Undefined

\* how many of the three kinds of ending a request has had
Endings == (IF Written THEN 1 ELSE 0) + Len(conn.handled) + Len(conn.thrown)

\* a request in any state: one ending when it is over and none before, a
\* written response being the 404, the 400 or the mapped one; at most one
\* call of the implementation; nothing written while the implementation is
\* awaited, nor when the response validation refuses the returned body
OneOutcome ==
    /\ conn.implCalls <= 1
    /\ conn.pc = "done" <=> Endings = 1
    /\ conn.pc # "done" => Endings = 0
    /\ Written => (NotFoundWritten \/ BadRequestWritten \/ MappedWritten)
    /\ conn.pc = "awaiting" =>
           conn.implCalls = 1 /\ conn.outcome = Undefined /\ conn.res = NoResponse
    /\ ReturnedInvalid => ~Written

\* C30: provided the implementation settles, every request ends, and it
\* ends in exactly one of: 404 written, 400 written, the mapped response
\* written, the error handed to the error handler, the error rethrown; the
\* implementation is invoked at most once, and the response validation
\* comes after the invocation and before anything is written.
C30_SingleOutcome ==
    /\ []OneOutcome
    /\ (conn.pc = "awaiting") ~> (conn.pc = "done")

\* a request that awaited its implementation and ended with the error
\* handed to the error handler, nothing written
C30_Witness ==
    /\ adapter = "next" /\ conn.pc = "done"
    /\ conn.implCalls = 1
    /\ conn.outcome = [kind |-> "throw", error |-> UnknownError]
    /\ conn.handled = <<UnknownError>> /\ ~Written /\ ~Rethrown

====
